---------------------------- MODULE Spec2Model ----------------------------
(***************************************************************************)
(* A model of the raytracer crate: the sample generators and the Samples   *)
(* container (sampler.rs), the camera pixel loops (camera.rs), nearest-hit *)
(* selection (world.rs) and the ray/geometry intersections (geometry.rs).  *)
(*                                                                         *)
(* f64 values are modelled as extended rationals: NaN, +inf, -inf or a     *)
(* reduced fraction n/d.  Arithmetic follows IEEE-754 for the special      *)
(* values (0/0 = NaN, x/0 = +-inf, 0*inf = NaN, every comparison with NaN  *)
(* is false); finite results are exact instead of rounded, and zero is     *)
(* unsigned.                                                               *)
(***************************************************************************)
EXTENDS Integers, Sequences, FiniteSets, TLC

VARIABLES
    gen,        \* the sample generator under construction / in use
    smp,        \* the Samples container (samples, num_samples, count, indices)
    ret,        \* what the last get_next call did
    calls,      \* number of get_next calls made so far
    rot,        \* set indices returned since the last reshuffle
    lastRot,    \* the rotation that the last reshuffle ended
    shuffles,   \* number of reshuffles so far
    view,       \* the world's ViewPlane: hres, vres, s (its sampler is gen)
    cam,        \* the camera: its kind and, for ThinLens, its lens sampler
    disc,       \* the lens Samples container of a ThinLens render
    img,        \* the image buffer: per pixel, the writes and the rays traced
    pos,        \* number of pixels the pixel loop has finished
    rst,        \* render status: "idle", "running", "done" or "panic"
    loc,        \* a camera Location: eye, centre, up
    basis,      \* what compute_basis_vectors did with loc
    hits,       \* what each world object's hit returns for the ray in hand
    found,      \* what World::hit_objects did with them
    ray,        \* a ray: origin, direction
    obj,        \* a geometry object
    hitres,     \* what obj.hit(&ray) did
    world,      \* the world: background, ambient light, lights, objects
    isect,      \* an Intersection: ray, t, hit_point, normal, colour, material
    shaded,     \* what Material::shade did with isect
    traced,     \* what Tracer::trace_ray did with ray
    shadow,     \* what Light::in_shadow did with ray
    colour,     \* a Colour to convert
    rgb,        \* what Rgb::from did with colour
    outcome,    \* the outcomes of the random draws of one new_square_set call
    sset,       \* what new_square_set returned
    lhs,        \* the vector Vec3::cross is called on
    rhs,        \* its argument
    crossed,    \* what Vec3::cross returned
    pnt,        \* a point on the surface of obj
    nrm         \* what obj.normal(pnt) returned

samplerVars == <<gen, smp, ret, calls, rot, lastRot, shuffles>>
renderVars == <<view, cam, disc, img, pos, rst>>
geomVars == <<loc, basis, hits, found, ray, obj, hitres>>
shadeVars == <<world, isect, shaded, traced, shadow, colour, rgb>>
pureVars == <<outcome, sset, lhs, rhs, crossed, pnt, nrm>>
vars == <<gen, smp, ret, calls, rot, lastRot, shuffles, view, cam, disc, img, pos, rst,
          loc, basis, hits, found, ray, obj, hitres,
          world, isect, shaded, traced, shadow, colour, rgb,
          outcome, sset, lhs, rhs, crossed, pnt, nrm>>

---------------------------------------------------------------------------
(* Bounds of the model *)

\* largest num_samples handed to a constructor when the container is exercised
MaxSamples == 4
\* largest num_samples handed to the grid constructors alone
MaxGridSamples == 40
\* number of get_next calls explored
MaxCalls == 9
\* number of seeds of the modelled random source
MaxSeed == 1
\* largest hres and vres rendered
MaxRes == 2
\* largest num_samples of the samplers of a render
MaxRenderSamples == 3
\* largest absolute value of a coordinate of an input vector
MaxCoord == 1
\* largest number of objects in the world
MaxObjects == 3
\* the square root of a non-square is rounded down to a multiple of 1/SqrtScale
SqrtScale == 16
\* bits of the significand a sum of colours is rounded to
SigBits == 4
\* largest number of lights in the world
MaxLights == 3
\* largest num_samples of a generator whose new_square_set is called alone
MaxSetSamples == 9
\* longest slice of which every shuffle outcome is explored; of a longer one,
\* the rotations
MaxShuffleLen == 3

---------------------------------------------------------------------------
(* f64 as extended rationals *)

RECURSIVE Gcd(_, _)
Gcd(a, b) == IF b = 0 THEN a ELSE Gcd(b, a % b)

Abs(i) == IF i < 0 THEN -i ELSE i
Sgn(i) == IF i < 0 THEN -1 ELSE IF i = 0 THEN 0 ELSE 1

FNaN == [k |-> "nan", n |-> 0, d |-> 1]
FInf(s) == [k |-> "inf", n |-> s, d |-> 1]

\* the fraction n/d, d # 0, reduced
Fin(n, d) ==
    LET g == Gcd(Abs(n), Abs(d))
        s == IF d < 0 THEN -1 ELSE 1
    IN  [k |-> "fin", n |-> s * (n \div g), d |-> s * (d \div g)]

FInt(i) == [k |-> "fin", n |-> i, d |-> 1]
FZero == FInt(0)
FOne == FInt(1)

IsNaN(a) == a.k = "nan"
IsFin(a) == a.k = "fin"
\* sign of a non-NaN value
FSign(a) == Sgn(a.n)

FNeg(a) == IF IsNaN(a) THEN FNaN ELSE [a EXCEPT !.n = -a.n]

FAdd(a, b) ==
    IF IsNaN(a) \/ IsNaN(b) THEN FNaN
    ELSE IF a.k = "inf" /\ b.k = "inf" THEN (IF a.n = b.n THEN a ELSE FNaN)
    ELSE IF a.k = "inf" THEN a
    ELSE IF b.k = "inf" THEN b
    ELSE LET l == (a.d \div Gcd(a.d, b.d)) * b.d
         IN  Fin(a.n * (l \div a.d) + b.n * (l \div b.d), l)

FSub(a, b) == FAdd(a, FNeg(b))

FMul(a, b) ==
    IF IsNaN(a) \/ IsNaN(b) THEN FNaN
    ELSE IF a.k = "inf" \/ b.k = "inf"
         THEN (IF FSign(a) * FSign(b) = 0 THEN FNaN ELSE FInf(FSign(a) * FSign(b)))
    ELSE LET g1 == Gcd(Abs(a.n), b.d)
             g2 == Gcd(Abs(b.n), a.d)
         IN  Fin((a.n \div g1) * (b.n \div g2), (a.d \div g2) * (b.d \div g1))

FDiv(a, b) ==
    IF IsNaN(a) \/ IsNaN(b) THEN FNaN
    ELSE IF a.k = "inf" /\ b.k = "inf" THEN FNaN
    ELSE IF a.k = "inf" THEN FInf(IF FSign(b) < 0 THEN -a.n ELSE a.n)
    ELSE IF b.k = "inf" THEN FZero
    ELSE IF b.n = 0 THEN (IF a.n = 0 THEN FNaN ELSE FInf(Sgn(a.n)))
    ELSE FMul(a, Fin(b.d, b.n))

\* a < b, false when either is NaN
FLt(a, b) ==
    IF IsNaN(a) \/ IsNaN(b) THEN FALSE
    ELSE IF a.k = "inf" THEN a.n < 0 /\ ~(b.k = "inf" /\ b.n < 0)
    ELSE IF b.k = "inf" THEN b.n > 0
    ELSE LET g == Gcd(a.d, b.d)
         IN  a.n * (b.d \div g) < b.n * (a.d \div g)

FGt(a, b) == FLt(b, a)
FEq(a, b) == ~IsNaN(a) /\ ~IsNaN(b) /\ a = b
FLe(a, b) == FLt(a, b) \/ FEq(a, b)
FGe(a, b) == FLe(b, a)

\* f64::min and f64::max: a NaN operand is ignored
FMin(a, b) == IF IsNaN(a) THEN b ELSE IF IsNaN(b) THEN a
              ELSE IF FLt(b, a) THEN b ELSE a
FMax(a, b) == IF IsNaN(a) THEN b ELSE IF IsNaN(b) THEN a
              ELSE IF FLt(a, b) THEN b ELSE a

\* floor of the square root of a natural number, by bisection
RECURSIVE ISqrtIn(_, _, _)
ISqrtIn(m, lo, hi) ==
    IF lo >= hi THEN lo
    ELSE LET mid == (lo + hi + 1) \div 2
         IN  IF mid * mid <= m THEN ISqrtIn(m, mid, hi) ELSE ISqrtIn(m, lo, mid - 1)

ISqrt(m) == ISqrtIn(m, 0, IF m < 46340 THEN m ELSE 46340)

IsSquare(m) == ISqrt(m) * ISqrt(m) = m

\* f64::sqrt: NaN below zero; exact on a fraction of squares, otherwise
\* rounded down to a multiple of 1/SqrtScale
FSqrt(a) ==
    IF IsNaN(a) \/ a.n < 0 THEN FNaN
    ELSE IF a.k = "inf" THEN a
    ELSE IF IsSquare(a.n) /\ IsSquare(a.d) THEN Fin(ISqrt(a.n), ISqrt(a.d))
    ELSE Fin(ISqrt((a.n * SqrtScale * SqrtScale) \div a.d), SqrtScale)

---------------------------------------------------------------------------
(* sampler.rs: the generators *)

NUM_SETS == 83

GenKinds == {"Random", "Regular", "Jittered", "NRooks", "MultiJittered", "Hammersley"}
GridKinds == {"Regular", "Jittered", "MultiJittered"}

\* a generator value; st = "ok" after a successful constructor, "panic" when
\* the constructor's assertion failed, "none" before any constructor ran
NoGen == [st |-> "none", kind |-> "none", num_samples |-> 0, n |-> 0]
Generator(kind, ns, n) == [st |-> "ok", kind |-> kind, num_samples |-> ns, n |-> n]
PanicGen(kind, ns) == [st |-> "panic", kind |-> kind, num_samples |-> ns, n |-> 0]

\* `(num_samples as f64).sqrt() as usize`
SqrtAsUsize(ns) == ISqrt(ns)

RegularNewNoAssert(num_samples) ==
    Generator("Regular", num_samples, SqrtAsUsize(num_samples))

RegularNew(num_samples) ==
    LET n == SqrtAsUsize(num_samples)
    IN  IF n * n = num_samples
        THEN Generator("Regular", num_samples, n)
        ELSE PanicGen("Regular", num_samples)

JitteredNew(num_samples) ==
    [RegularNew(num_samples) EXCEPT !.kind = "Jittered"]

MultiJitteredNew(num_samples) ==
    LET n == SqrtAsUsize(num_samples)
    IN  IF n * n = num_samples
        THEN Generator("MultiJittered", num_samples, n)
        ELSE PanicGen("MultiJittered", num_samples)

RandomNew(num_samples) == Generator("Random", num_samples, 0)
NRooksNew(num_samples) == Generator("NRooks", num_samples, 0)
HammersleyNew(num_samples) == Generator("Hammersley", num_samples, 0)

GenNew(kind, ns) ==
    CASE kind = "Random" -> RandomNew(ns)
      [] kind = "Regular" -> RegularNew(ns)
      [] kind = "Jittered" -> JitteredNew(ns)
      [] kind = "NRooks" -> NRooksNew(ns)
      [] kind = "MultiJittered" -> MultiJitteredNew(ns)
      [] kind = "Hammersley" -> HammersleyNew(ns)

\* Generator::num_sets, overridden by Regular and Hammersley
NumSets(g) == IF g.kind \in {"Regular", "Hammersley"} THEN 1 ELSE NUM_SETS

---------------------------------------------------------------------------
(* sampler.rs: one set of samples on the unit square *)

Vec2(x, y) == [x |-> x, y |-> y]

\* The outcomes of the random draws one new_square_set call makes:
\*   u  the f64 draws, each in [0, 1), in call order
\*   p1 the outcome of the first slice shuffle, a permutation of 0..len-1
\*   p2 the outcome of the second slice shuffle
\*   r  the integers behind the gen_range draws, in call order
Draws == <<FZero, Fin(1, 2), Fin(3, 4)>>

Rotation(len, by) == [k \in 1..len |-> (k - 1 + by) % len]

\* the pseudo-random source behind set number i for a given seed
RndFor(g, seed, i) ==
    [u  |-> [k \in 1..(2 * g.num_samples) |-> Draws[((seed + i + k) % Len(Draws)) + 1]],
     p1 |-> Rotation(g.num_samples, seed + i),
     p2 |-> Rotation(g.num_samples, seed + 2 * i + 1),
     r  |-> [k \in 1..(2 * g.num_samples) |-> seed + i + k]]

\* slice::shuffle with outcome p: position k receives the element at p[k]
Shuffled(v, p) == [k \in 1..Len(v) |-> v[p[k] + 1]]

\* slice::swap on 0-based positions
SwapAt(v, a, b) == [v EXCEPT ![a + 1] = v[b + 1], ![b + 1] = v[a + 1]]

RandomSquareSet(g, rnd) ==
    [i \in 1..g.num_samples |-> Vec2(rnd.u[2 * i - 1], rnd.u[2 * i])]

\* the two nested loops push n * n points, x outermost
RegularSquareSet(g) ==
    [k \in 1..(g.n * g.n) |->
        Vec2(FDiv(FInt((k - 1) \div g.n), FInt(g.n)),
             FDiv(FInt((k - 1) % g.n), FInt(g.n)))]

JitteredSquareSet(g, rnd) ==
    LET reg == RegularSquareSet(g)
    IN  [k \in 1..Len(reg) |->
            Vec2(FAdd(reg[k].x, rnd.u[2 * k - 1]), FAdd(reg[k].y, rnd.u[2 * k]))]

\* an n-rooks set whose jitter is added after the division by num_samples
NRooksSquareSetRawJitter(g, rnd) ==
    LET xs == Shuffled([k \in 1..g.num_samples |-> k - 1], rnd.p1)
        ys == Shuffled([k \in 1..g.num_samples |-> k - 1], rnd.p2)
    IN  [k \in 1..g.num_samples |->
            Vec2(FAdd(FDiv(FInt(xs[k]), FInt(g.num_samples)), rnd.u[2 * k - 1]),
                 FAdd(FDiv(FInt(ys[k]), FInt(g.num_samples)), rnd.u[2 * k]))]

NRooksSquareSet(g, rnd) ==
    LET xs == Shuffled([k \in 1..g.num_samples |-> k - 1], rnd.p1)
        ys == Shuffled([k \in 1..g.num_samples |-> k - 1], rnd.p2)
    IN  [k \in 1..g.num_samples |->
            Vec2(FDiv(FAdd(FInt(xs[k]), rnd.u[2 * k - 1]), FInt(g.num_samples)),
                 FDiv(FAdd(FInt(ys[k]), rnd.u[2 * k]), FInt(g.num_samples)))]

\* rng.gen_range(low, high): a value in low..high-1, from the draw d
GenRange(low, high, d) == low + (d % (high - low))

\* a shuffle of the x-coordinates that swaps across rows instead of within one
RECURSIVE MJShuffleXsAcrossRows(_, _, _, _)
MJShuffleXsAcrossRows(xs, n, s, rnd) ==
    IF s >= n * (n - 1) THEN xs
    ELSE LET row == s \div (n - 1)
             col == s % (n - 1)
             r == GenRange(col, n - 1, rnd.r[s + 1])
         IN  MJShuffleXsAcrossRows(SwapAt(xs, row * n + col, r * n + row), n, s + 1, rnd)

\* "shuffle x-coordinates": step s is (row, col) = (s div (n-1), s mod (n-1))
RECURSIVE MJShuffleXs(_, _, _, _)
MJShuffleXs(xs, n, s, rnd) ==
    IF s >= n * (n - 1) THEN xs
    ELSE LET row == s \div (n - 1)
             col == s % (n - 1)
             r == GenRange(col, n - 1, rnd.r[s + 1])
         IN  MJShuffleXs(SwapAt(xs, row * n + col, row * n + r), n, s + 1, rnd)

\* "shuffle y-coordinates": step s is (col, row) = (s div (n-1), s mod (n-1))
RECURSIVE MJShuffleYs(_, _, _, _)
MJShuffleYs(ys, n, s, rnd) ==
    IF s >= n * (n - 1) THEN ys
    ELSE LET col == s \div (n - 1)
             row == s % (n - 1)
             r == GenRange(row, n - 1, rnd.r[n * (n - 1) + s + 1])
         IN  MJShuffleYs(SwapAt(ys, row * n + col, r * n + col), n, s + 1, rnd)

MultiJitteredSquareSet(g, rnd) ==
    LET n == g.n
        subcell_size == FDiv(FOne, FInt(g.num_samples))
        \* position k-1 = i * n + j
        xs0 == [k \in 1..(n * n) |->
                  FAdd(FMul(FInt(((k - 1) \div n) * n + ((k - 1) % n)), subcell_size),
                       FMul(rnd.u[2 * k - 1], subcell_size))]
        ys0 == [k \in 1..(n * n) |->
                  FAdd(FMul(FInt(((k - 1) % n) * n + ((k - 1) \div n)), subcell_size),
                       FMul(rnd.u[2 * k], subcell_size))]
        xs == MJShuffleXs(xs0, n, 0, rnd)
        ys == MJShuffleYs(ys0, n, 0, rnd)
        v == [k \in 1..(n * n) |-> Vec2(xs[k], ys[k])]
    IN  Shuffled(v, rnd.p1)

\* phi(j) of Hammersley::new_square_set; f is 1/fden
RECURSIVE Phi(_, _, _)
Phi(j, x, fden) ==
    IF j = 0 THEN x
    ELSE Phi(j \div 2, FAdd(x, FMul(Fin(1, fden), FInt(1 - (j % 2)))), fden * 2)

HammersleySquareSet(g) ==
    [k \in 1..g.num_samples |->
        Vec2(FDiv(FInt(k - 1), FInt(g.num_samples)), Phi(k - 1, FZero, 2))]

NewSquareSet(g, rnd) ==
    CASE g.kind = "Random" -> RandomSquareSet(g, rnd)
      [] g.kind = "Regular" -> RegularSquareSet(g)
      [] g.kind = "Jittered" -> JitteredSquareSet(g, rnd)
      [] g.kind = "NRooks" -> NRooksSquareSet(g, rnd)
      [] g.kind = "MultiJittered" -> MultiJitteredSquareSet(g, rnd)
      [] g.kind = "Hammersley" -> HammersleySquareSet(g)

---------------------------------------------------------------------------
(* sampler.rs: the Samples container *)

PanicSamples ==
    [st |-> "panic", samples |-> <<>>, num_samples |-> 0, count |-> 0, indices |-> <<>>]

\* Samples::new as a mutant would write it: no assertion, and the number of
\* sets taken for the number of samples
SamplesNewSetCount(num_samples, samples) ==
    [st |-> "ok", samples |-> samples, num_samples |-> Len(samples), count |-> 0,
     indices |-> [k \in 1..num_samples |-> k - 1]]

SamplesNew(num_samples, samples) ==
    IF Len(samples) = 0 \/ num_samples # Len(samples[1])
    THEN PanicSamples
    ELSE [st |-> "ok", samples |-> samples, num_samples |-> num_samples, count |-> 0,
          indices |-> [k \in 1..num_samples |-> k - 1]]

GenSquareSamples(g, seed) ==
    SamplesNew(g.num_samples,
               [i \in 1..NumSets(g) |-> NewSquareSet(g, RndFor(g, seed, i))])

\* Samples::num_samples
NumSamples(s) == s.num_samples

\* all orders a shuffle of v can produce
Shuffles(v) ==
    {Shuffled(v, p) : p \in {q \in [1..Len(v) -> 0..(Len(v) - 1)] :
                                \A a, b \in 1..Len(v) : q[a] = q[b] => a = b}}

\* whether this get_next call reshuffles
Reshuffles(s) == Len(s.indices) > 1 /\ s.count + 1 = Len(s.indices)

\* Samples::get_next, `shuffled` being the outcome of indices.shuffle() should
\* the call reshuffle.  kind = "set": samples[idx] is returned; kind = "panic":
\* the index or the unwrap panicked.
GetNext(s, shuffled) ==
    LET len == Len(s.indices)
        count == IF len > 1
                 THEN (IF s.count + 1 = len THEN 0 ELSE s.count + 1)
                 ELSE s.count
        indices == IF Reshuffles(s) THEN shuffled ELSE s.indices
        t == [s EXCEPT !.count = count, !.indices = indices]
    IN  IF count >= Len(indices)
        THEN [s |-> t, kind |-> "panic", idx |-> 0]
        ELSE IF indices[count + 1] >= Len(s.samples)
        THEN [s |-> t, kind |-> "panic", idx |-> indices[count + 1]]
        ELSE [s |-> t, kind |-> "set", idx |-> indices[count + 1]]

NoRet == [kind |-> "none", idx |-> 0]

NoSamples ==
    [st |-> "none", samples |-> <<>>, num_samples |-> 0, count |-> 0, indices |-> <<>>]

---------------------------------------------------------------------------
(* The generator constructors on their own *)

SamplerIdle ==
    /\ smp = NoSamples /\ ret = NoRet /\ calls = 0
    /\ rot = <<>> /\ lastRot = <<>> /\ shuffles = 0

NoView == [hres |-> 0, vres |-> 0, s |-> FZero]
NoCamera == [kind |-> "none", sampler |-> NoGen]

RenderIdle ==
    /\ view = NoView /\ cam = NoCamera /\ disc = NoSamples
    /\ img = <<>> /\ pos = 0 /\ rst = "idle"

Vec3(x, y, z) == [x |-> x, y |-> y, z |-> z]
V3(i, j, k) == Vec3(FInt(i), FInt(j), FInt(k))
NoBasis == [st |-> "none", u |-> V3(0, 0, 0), v |-> V3(0, 0, 0), w |-> V3(0, 0, 0)]
NoLocation == [eye |-> V3(0, 0, 0), centre |-> V3(0, 0, 0), up |-> V3(0, 0, 0)]
NoHit == [st |-> "none", t |-> FZero]
NoFound == [st |-> "none", obj |-> 0, t |-> FZero]
NoRay == [origin |-> V3(0, 0, 0), direction |-> V3(0, 0, 0)]
NoObject == [kind |-> "none", a |-> V3(0, 0, 0), b |-> V3(0, 0, 0), r |-> FZero]

GeomIdle ==
    /\ loc = NoLocation /\ basis = NoBasis
    /\ hits = <<>> /\ found = NoFound
    /\ ray = NoRay /\ obj = NoObject /\ hitres = NoHit

Colour(r, g, b) == [r |-> r, g |-> g, b |-> b]
Black == Colour(FZero, FZero, FZero)
White == Colour(FOne, FOne, FOne)
NoMaterial == [kind |-> "none"]
NoWorld ==
    [background |-> Black, ambient |-> [kind |-> "Ambient", scale |-> FZero, colour |-> Black],
     lights |-> <<>>, objects |-> <<>>]
NoIsect ==
    [ray |-> NoRay, t |-> FZero, hit_point |-> V3(0, 0, 0), normal |-> V3(0, 0, 0),
     material |-> NoMaterial]
NoShaded == [st |-> "none", colour |-> Black, lit |-> {}]
NoTraced == [st |-> "none", colour |-> Black, obj |-> 0]
NoShadow == [st |-> "none", v |-> FALSE]
NoRgb == [st |-> "none", r |-> 0, g |-> 0, b |-> 0]

ShadeIdle ==
    /\ world = NoWorld /\ isect = NoIsect
    /\ shaded = NoShaded /\ traced = NoTraced /\ shadow = NoShadow
    /\ colour = Black /\ rgb = NoRgb

NoOutcome == [u |-> <<>>, p1 |-> <<>>, p2 |-> <<>>, r |-> <<>>]
NoSet == [st |-> "none", set |-> <<>>]
NoVec == [st |-> "none", v |-> V3(0, 0, 0)]

PureIdle ==
    /\ outcome = NoOutcome /\ sset = NoSet
    /\ lhs = V3(0, 0, 0) /\ rhs = V3(0, 0, 0) /\ crossed = NoVec
    /\ pnt = V3(0, 0, 0) /\ nrm = NoVec

InitGen ==
    /\ gen \in {[NoGen EXCEPT !.num_samples = ns] : ns \in 0..MaxGridSamples}
    /\ SamplerIdle
    /\ RenderIdle
    /\ PureIdle
    /\ GeomIdle
    /\ ShadeIdle

Construct(kind) ==
    /\ gen.st = "none"
    /\ gen' = GenNew(kind, gen.num_samples)
    /\ UNCHANGED <<smp, ret, calls, rot, lastRot, shuffles>>
    /\ UNCHANGED renderVars
    /\ UNCHANGED pureVars
    /\ UNCHANGED geomVars
    /\ UNCHANGED shadeVars

NextGen == \E kind \in GenKinds : Construct(kind)

SpecGen == InitGen /\ [][NextGen]_vars

---------------------------------------------------------------------------
(* A Samples container in use: any number of get_next calls *)

InitSamples ==
    /\ gen \in {g \in {GenNew(kind, ns) : kind \in GenKinds, ns \in 0..MaxSamples} :
                   g.st = "ok"}
    /\ \E seed \in 0..MaxSeed : smp = GenSquareSamples(gen, seed)
    /\ ret = NoRet /\ calls = 0
    /\ rot = <<>> /\ lastRot = <<>> /\ shuffles = 0
    /\ RenderIdle
    /\ PureIdle
    /\ GeomIdle
    /\ ShadeIdle

\* one call of get_next by the consumer
GetNextCall ==
    /\ smp.st = "ok" /\ ret.kind # "panic" /\ calls < MaxCalls
    /\ \E shuffled \in (IF Reshuffles(smp) THEN Shuffles(smp.indices) ELSE {smp.indices}) :
          LET res == GetNext(smp, shuffled)
          IN  /\ smp' = res.s
              /\ ret' = [kind |-> res.kind, idx |-> res.idx]
              /\ calls' = calls + 1
              /\ IF Reshuffles(smp)
                 THEN /\ shuffles' = shuffles + 1
                      /\ lastRot' = rot
                      /\ rot' = IF res.kind = "set" THEN <<res.idx>> ELSE <<>>
                 ELSE /\ shuffles' = shuffles
                      /\ lastRot' = lastRot
                      /\ rot' = IF res.kind = "set" THEN Append(rot, res.idx) ELSE rot
    /\ UNCHANGED gen
    /\ UNCHANGED renderVars
    /\ UNCHANGED pureVars
    /\ UNCHANGED geomVars
    /\ UNCHANGED shadeVars

NextSamples == GetNextCall

SpecSamples == InitSamples /\ [][NextSamples]_vars

---------------------------------------------------------------------------
(* Claims about the constructors and the container *)

IsPerfectSquare(ns) == \E k \in 0..ns : k * k = ns

\* C5: Regular::new, Jittered::new and MultiJittered::new panic if and only if
\* num_samples is not a perfect square, and for n * n they store n.
C5_GridConstructors ==
    (gen.kind \in GridKinds /\ gen.st # "none") =>
        /\ gen.st = "panic" <=> ~IsPerfectSquare(gen.num_samples)
        /\ gen.st = "ok" => gen.n \in 0..gen.num_samples /\ gen.n * gen.n = gen.num_samples

C5_Witness ==
    gen.kind = "Jittered" /\ gen.st = "ok" /\ gen.num_samples = 25 /\ gen.n = 5

\* C1: get_next never runs out: no call of get_next on a container built from
\* a generator with num_samples >= 1 panics.
C1_NeverRunsOut ==
    gen.num_samples >= 1 => ret.kind # "panic"

\* C2: the set get_next returns holds exactly num_samples points, and
\* Samples::num_samples() is the length of that set.
C2_SetLength ==
    ret.kind = "set" =>
        /\ Len(smp.samples[ret.idx + 1]) = gen.num_samples
        /\ NumSamples(smp) = Len(smp.samples[ret.idx + 1])

C2_Witness ==
    /\ gen.kind = "MultiJittered" /\ gen.num_samples = 4
    /\ ret.kind = "set" /\ ret.idx = 3 /\ shuffles >= 1

\* each precomputed set occurs exactly once in r
IsFullRotation(r) ==
    /\ Len(r) = Len(smp.samples)
    /\ \A i \in 0..(Len(smp.samples) - 1) : Cardinality({k \in 1..Len(r) : r[k] = i}) = 1

\* C3: the sets are drawn round-robin: the calls a reshuffle ends (the first
\* rotation included) returned each of the num_sets() precomputed sets exactly
\* once.
C3_RoundRobin ==
    shuffles >= 1 => IsFullRotation(lastRot)

---------------------------------------------------------------------------
(* utility.rs: Colour.  A sum of colours is rounded, channel by channel, to *)
(* a significand of SigBits bits (f64 rounds to 53), to nearest, ties to    *)
(* even; products and quotients stay exact.                                 *)

RECURSIVE Pow2(_)
Pow2(k) == IF k = 0 THEN 1 ELSE 2 * Pow2(k - 1)

\* the e with 2^e <= n/d < 2^(e+1), for n, d > 0
RECURSIVE FloorLog2(_, _)
FloorLog2(n, d) ==
    IF n >= 2 * d THEN FloorLog2(n, 2 * d) + 1
    ELSE IF n < d THEN FloorLog2(2 * n, d) - 1
    ELSE 0

\* num/den rounded to the nearest integer, ties to the even one
RoundHalfEven(num, den) ==
    LET f == num \div den
        r == num % den
    IN  IF 2 * r < den THEN f
        ELSE IF 2 * r > den THEN f + 1
        ELSE IF f % 2 = 0 THEN f ELSE f + 1

FRound(a) ==
    IF ~IsFin(a) \/ a.n = 0 THEN a
    ELSE LET an == Abs(a.n)
             sh == FloorLog2(an, a.d) - SigBits + 1
             m == IF sh >= 0 THEN RoundHalfEven(an, a.d * Pow2(sh))
                  ELSE RoundHalfEven(an * Pow2(-sh), a.d)
         IN  IF sh >= 0 THEN Fin(Sgn(a.n) * m * Pow2(sh), 1)
             ELSE Fin(Sgn(a.n) * m, Pow2(-sh))

CAdd(a, b) ==
    Colour(FRound(FAdd(a.r, b.r)), FRound(FAdd(a.g, b.g)), FRound(FAdd(a.b, b.b)))
CMul(a, b) == Colour(FMul(a.r, b.r), FMul(a.g, b.g), FMul(a.b, b.b))
CScale(a, f) == Colour(FMul(a.r, f), FMul(a.g, f), FMul(a.b, f))
CDiv(a, f) == Colour(FDiv(a.r, f), FDiv(a.g, f), FDiv(a.b, f))

VNeg(a) == Vec3(FNeg(a.x), FNeg(a.y), FNeg(a.z))

\* `x as u8` for a float: truncated towards zero, saturated, NaN is 0
AsU8(x) ==
    IF IsNaN(x) THEN 0
    ELSE IF x.k = "inf" THEN (IF x.n > 0 THEN 255 ELSE 0)
    ELSE IF x.n <= 0 THEN 0
    ELSE IF x.n \div x.d >= 255 THEN 255
    ELSE x.n \div x.d

Channel(x) == AsU8(FMax(FMin(FMul(x, FInt(255)), FInt(255)), FZero))

RgbFrom(c) ==
    LET max == FMax(c.r, FMax(c.g, c.b))
        m == IF FGt(max, FOne) THEN CDiv(c, max) ELSE c
    IN  [st |-> "ok", r |-> Channel(m.r), g |-> Channel(m.g), b |-> Channel(m.b)]

---------------------------------------------------------------------------
(* camera.rs: render_scene and the pixel loop *)

CameraKinds == {"Pinhole", "ThinLens", "Fisheye", "Spherical"}
LensKinds == {"Random", "Regular"}

\* map_square_to_unit_disk keeps one point per sample; the concentric map
\* itself is not computed, the mapped point carries the sample it comes from
MapSquareToUnitDisk(samples) == [k \in 1..Len(samples) |-> [sq |-> samples[k]]]

GenDiscSamples(g, seed) ==
    SamplesNew(g.num_samples,
               [i \in 1..NumSets(g) |->
                   MapSquareToUnitDisk(NewSquareSet(g, RndFor(g, seed, i)))])

\* the prologue of ThinLens::render_scene with its assertion left out
ThinLensSamplesNoAssert(g, lens, seed) ==
    [st |-> "ok", pix |-> GenSquareSamples(g, seed), disc |-> GenDiscSamples(lens, seed + 1)]

\* the prologue of ThinLens::render_scene: both containers, then the assertion
ThinLensSamples(g, lens, seed) ==
    LET pixel_samples == GenSquareSamples(g, seed)
        disc_samples == GenDiscSamples(lens, seed + 1)
    IN  IF pixel_samples.st = "ok" /\ disc_samples.st = "ok"
           /\ NumSamples(pixel_samples) = NumSamples(disc_samples)
        THEN [st |-> "ok", pix |-> pixel_samples, disc |-> disc_samples]
        ELSE [st |-> "panic", pix |-> pixel_samples, disc |-> disc_samples]

\* the prologue of the other cameras' render_scene
PlainSamples(g, seed) ==
    LET samples == GenSquareSamples(g, seed)
    IN  [st |-> samples.st, pix |-> samples, disc |-> NoSamples]

\* RgbImage::new: every pixel black, nothing written, no ray traced
NewImage(v) ==
    [p \in (0..(v.hres - 1)) \X (0..(v.vres - 1)) |->
        [writes |-> 0, rays |-> 0, set |-> <<>>, colour |-> Black,
         rgb |-> [st |-> "ok", r |-> 0, g |-> 0, b |-> 0]]]

\* loop_through_viewplane: the view-plane point of pixel (col, row)
PixelPoint(v, col, row) ==
    LET width == FInt(v.hres - 1)
        height == FInt(v.vres - 1)
    IN  Vec2(FSub(FInt(col), FMul(width, Fin(1, 2))),
             FSub(FMul(height, Fin(1, 2)), FInt(row)))

\* Fisheye::ray_direction returns Some exactly when r_squared <= 1
FisheyeHasDirection(point, v) ==
    LET sx == FMul(FInt(v.hres), v.s)
        sy == FMul(FInt(v.vres), v.s)
        nx == FDiv(FMul(point.x, FInt(2)), sx)
        ny == FDiv(FMul(point.y, FInt(2)), sy)
        r_squared == FAdd(FMul(nx, nx), FMul(ny, ny))
    IN  FLe(r_squared, FOne)

Min(a, b) == IF a < b THEN a ELSE b

\* the rays the fold of one pixel traces, from the sets drawn for it
RaysTraced(c, v, pixel, set, dset) ==
    CASE c.kind = "ThinLens" -> Min(Len(set), Len(dset))
      [] c.kind = "Fisheye" ->
            Cardinality({k \in 1..Len(set) :
                FisheyeHasDirection(Vec2(FMul(FAdd(pixel.x, set[k].x), v.s),
                                         FMul(FAdd(pixel.y, set[k].y), v.s)), v)})
      [] OTHER -> Len(set)

\* the exposure every camera constructor sets
Exposure == FOne

\* tracer.trace_ray for the ray through a sample point: the tracer is a
\* parameter of render_scene, here one whose colour follows the sample
TraceSample(sample) == Colour(sample.x, sample.y, FOne)

\* a fold that traces a ray for every sample, whatever ray_direction returns
RECURSIVE FoldPixelNoCutoff(_, _, _, _, _, _, _)
FoldPixelNoCutoff(c, v, pixel, set, dset, k, accum) ==
    IF k > Len(set) \/ (c.kind = "ThinLens" /\ k > Len(dset)) THEN accum
    ELSE FoldPixelNoCutoff(c, v, pixel, set, dset, k + 1, CAdd(accum, TraceSample(set[k])))

\* the fold of one pixel over its samples, from sample k on
RECURSIVE FoldPixel(_, _, _, _, _, _, _)
FoldPixel(c, v, pixel, set, dset, k, accum) ==
    IF k > Len(set) \/ (c.kind = "ThinLens" /\ k > Len(dset)) THEN accum
    ELSE IF c.kind = "Fisheye"
            /\ ~FisheyeHasDirection(Vec2(FMul(FAdd(pixel.x, set[k].x), v.s),
                                        FMul(FAdd(pixel.y, set[k].y), v.s)), v)
         THEN FoldPixel(c, v, pixel, set, dset, k + 1, accum)
         ELSE FoldPixel(c, v, pixel, set, dset, k + 1, CAdd(accum, TraceSample(set[k])))

\* the colour the closure of render_scene returns for one pixel
PixelColour(c, v, pixel, set, dset, num_samples) ==
    CDiv(CScale(FoldPixel(c, v, pixel, set, dset, 1, Black), Exposure),
         FInt(num_samples))

ValidGens(maxns) ==
    {g \in {GenNew(kind, ns) : kind \in GenKinds, ns \in 0..maxns} : g.st = "ok"}

InitRender ==
    /\ gen \in ValidGens(MaxRenderSamples)
    /\ SamplerIdle
    /\ view \in {[hres |-> h, vres |-> w, s |-> FOne] :
                   <<h, w>> \in {q \in (1..MaxRes) \X (1..MaxRes) : q[1] * q[2] <= 2 * MaxRes}}
    /\ cam \in {[kind |-> k, sampler |-> NoGen] : k \in CameraKinds \ {"ThinLens"}}
               \cup {[kind |-> "ThinLens", sampler |-> l] :
                       l \in {g \in ValidGens(MaxRenderSamples) : g.kind \in LensKinds}}
    /\ disc = NoSamples /\ img = <<>> /\ pos = 0 /\ rst = "idle"
    /\ GeomIdle
    /\ ShadeIdle
    /\ PureIdle

\* render_scene up to the first pixel: the sample containers, ThinLens's
\* assertion, the empty image
RenderStart ==
    /\ rst = "idle"
    /\ LET res == IF cam.kind = "ThinLens"
                  THEN ThinLensSamples(gen, cam.sampler, 0)
                  ELSE PlainSamples(gen, 0)
       IN  /\ smp' = res.pix
           /\ disc' = res.disc
           /\ rst' = IF res.st = "ok" THEN "running" ELSE "panic"
           /\ img' = IF res.st = "ok" THEN NewImage(view) ELSE img
    /\ UNCHANGED <<gen, ret, calls, rot, lastRot, shuffles, view, cam, pos>>
    /\ UNCHANGED geomVars
    /\ UNCHANGED shadeVars
    /\ UNCHANGED pureVars

\* one iteration of the pixel loop: draw the sets, trace the rays, put_pixel;
\* the loop's last iteration returns the image
RenderPixel ==
    /\ rst = "running" /\ pos < view.hres * view.vres
    /\ \E shuffled \in (IF Reshuffles(smp) THEN Shuffles(smp.indices) ELSE {smp.indices}),
          dshuffled \in (IF cam.kind = "ThinLens" /\ Reshuffles(disc)
                         THEN Shuffles(disc.indices) ELSE {disc.indices}) :
          LET col == pos \div view.vres
              row == pos % view.vres
              a == GetNext(smp, shuffled)
              d == IF cam.kind = "ThinLens" /\ a.kind = "set"
                   THEN GetNext(disc, dshuffled)
                   ELSE [s |-> disc, kind |-> "none", idx |-> 0]
              ok == a.kind = "set" /\ d.kind # "panic"
              set == a.s.samples[a.idx + 1]
              dset == IF d.kind = "set" THEN d.s.samples[d.idx + 1] ELSE <<>>
          IN  /\ smp' = a.s
              /\ disc' = d.s
              /\ ret' = [kind |-> a.kind, idx |-> a.idx]
              /\ calls' = calls + 1
              /\ IF ok
                 THEN /\ img' = [img EXCEPT ![<<col, row>>] =
                                   [writes |-> @.writes + 1,
                                    rays |-> @.rays + RaysTraced(cam, view,
                                                PixelPoint(view, col, row), set, dset),
                                    set |-> set,
                                    colour |-> PixelColour(cam, view,
                                                PixelPoint(view, col, row), set, dset,
                                                NumSamples(smp)),
                                    rgb |-> RgbFrom(PixelColour(cam, view,
                                                PixelPoint(view, col, row), set, dset,
                                                NumSamples(smp)))]]
                      /\ pos' = pos + 1
                      /\ rst' = IF pos + 1 = view.hres * view.vres THEN "done" ELSE "running"
                 ELSE /\ img' = img /\ pos' = pos /\ rst' = "panic"
    /\ UNCHANGED <<gen, rot, lastRot, shuffles, view, cam>>
    /\ UNCHANGED geomVars
    /\ UNCHANGED shadeVars
    /\ UNCHANGED pureVars

NextRender == RenderStart \/ RenderPixel

SpecRender == InitRender /\ [][NextRender]_vars

---------------------------------------------------------------------------
(* Claims about render_scene *)

\* the lens sampler and the antialiasing sampler disagree on num_samples
LensMismatch == cam.kind = "ThinLens" /\ gen.num_samples # cam.sampler.num_samples

\* C4: with hres, vres >= 1 and a view sampler whose constructor succeeded,
\* render_scene writes all hres * vres pixels and never panics in the pixel
\* loop (a ThinLens sampler mismatch being a malformed configuration).
C4_RenderCompletes ==
    (gen.num_samples >= 1 /\ ~LensMismatch) => rst # "panic"

\* C6: ThinLens::render_scene panics before any ray is traced and before any
\* pixel is written when the two samplers' num_samples differ; when they are
\* equal every pixel written has traced exactly N rays, one per pair of an
\* antialiasing sample and a lens sample.
C6_LensMismatchFailsFast ==
    (cam.kind = "ThinLens" /\ rst # "idle") =>
        IF gen.num_samples # cam.sampler.num_samples
        THEN rst = "panic" /\ pos = 0 /\ calls = 0 /\ img = <<>>
        ELSE \A p \in DOMAIN img :
                img[p].writes > 0 => img[p].rays = gen.num_samples

C6_Witness ==
    /\ cam.kind = "ThinLens" /\ gen.num_samples = 3 /\ cam.sampler.num_samples = 3
    /\ rst = "done" /\ pos = 4
    /\ \A p \in DOMAIN img : img[p].writes = 1 /\ img[p].rays = 3

\* the colours traced for the samples of a set, summed in order
RECURSIVE SumTraced(_, _)
SumTraced(set, k) ==
    IF k = 0 THEN Black ELSE CAdd(SumTraced(set, k - 1), TraceSample(set[k]))

\* C20: render_scene visits every pixel of the hres x vres view plane exactly
\* once, draws one sample set of N points for it, traces one ray per sample
\* and writes the sum of the N traced colours times exposure over N; no pixel
\* is written twice or left unwritten.
C20_EveryPixelOnce ==
    /\ rst # "idle" => \A p \in DOMAIN img : img[p].writes <= 1
    /\ (gen.num_samples >= 1 /\ ~LensMismatch /\ rst \notin {"idle", "running"}) =>
           /\ rst = "done"
           /\ DOMAIN img = (0..(view.hres - 1)) \X (0..(view.vres - 1))
           /\ \A p \in DOMAIN img :
                  /\ img[p].writes = 1
                  /\ Len(img[p].set) = gen.num_samples
                  /\ img[p].rays = gen.num_samples
                  /\ img[p].colour =
                         CDiv(CScale(SumTraced(img[p].set, gen.num_samples), Exposure),
                              FInt(gen.num_samples))

\* the samples of the set drawn for pixel p that lie in the field of view:
\* those with r^2 = ndc.x^2 + ndc.y^2 <= 1
InFieldOfView(p) ==
    LET pixel == PixelPoint(view, p[1], p[2])
        set == img[p].set
    IN  {k \in 1..Len(set) :
            FisheyeHasDirection(Vec2(FMul(FAdd(pixel.x, set[k].x), view.s),
                                     FMul(FAdd(pixel.y, set[k].y), view.s)), view)}

\* the sum, in order, of the colours traced for the samples of `inside` among
\* the first k of set
RECURSIVE SumTracedIn(_, _, _)
SumTracedIn(set, inside, k) ==
    IF k = 0 THEN Black
    ELSE IF k \in inside
         THEN CAdd(SumTracedIn(set, inside, k - 1), TraceSample(set[k]))
         ELSE SumTracedIn(set, inside, k - 1)

\* C27: Fisheye traces exactly one ray for each sample with r^2 <= 1 and none
\* for a sample with r^2 > 1, which leaves the accumulated colour unchanged;
\* the pixel's sum is still divided by the full sample count N.
C27_FisheyeCutoff ==
    (cam.kind = "Fisheye" /\ rst # "idle") =>
        \A p \in DOMAIN img :
            img[p].writes = 1 =>
                /\ img[p].rays = Cardinality(InFieldOfView(p))
                /\ img[p].colour =
                       CDiv(CScale(SumTracedIn(img[p].set, InFieldOfView(p),
                                               Len(img[p].set)), Exposure),
                            FInt(gen.num_samples))

C27_Witness ==
    /\ cam.kind = "Fisheye" /\ rst = "done"
    /\ \E p \in DOMAIN img :
           /\ img[p].writes = 1
           /\ 0 < img[p].rays /\ img[p].rays < gen.num_samples

\* C26: a container built from a generator with one set (Regular,
\* Hammersley; num_samples >= 1) hands out that set at every call of
\* get_next: each call returns set 0 and count stays 0.
C26_SingleSetRepeats ==
    (smp.st = "ok" /\ NumSets(gen) = 1 /\ gen.num_samples >= 1) =>
        /\ smp.count = 0
        /\ calls >= 1 => ret.kind = "set" /\ ret.idx = 0

\* b holds the elements of a in some order (the elements are distinct)
IsPermutationOf(b, a) ==
    /\ Len(b) = Len(a)
    /\ {b[k] : k \in 1..Len(b)} = {a[k] : k \in 1..Len(a)}

\* what a step may change of a Samples container: count and the order of indices
SamplesFrame(s, t) ==
    /\ t.samples = s.samples
    /\ t.num_samples = s.num_samples
    /\ IsPermutationOf(t.indices, s.indices)

\* C25: during rendering get_next changes only count and the order of
\* indices, never the stored sets or num_samples; indices stays a permutation
\* of its initial contents with count < indices.len(); the world (its view
\* plane and sampler) and the camera are unchanged; and render_scene starts
\* from fresh containers with count = 0.
C25_RenderFrame ==
    /\ [](\A s \in {smp, disc} : s.st = "ok" => s.count < Len(s.indices))
    /\ [][/\ rst = "running" => SamplesFrame(smp, smp') /\ SamplesFrame(disc, disc')
          /\ rst = "idle" =>
                 \A s \in {smp', disc'} :
                     s.st = "ok" => s.count = 0
                                    /\ s.indices = [k \in 1..Len(s.indices) |-> k - 1]
          /\ view' = view /\ gen' = gen /\ cam' = cam /\ world' = world]_vars

---------------------------------------------------------------------------
(* One call of new_square_set, for every outcome of its random draws *)

\* 2 * ns draws of rng.gen::<f64>(): the draw values in a repeating pattern
UDraws(ns, a, b) ==
    [k \in 1..(2 * ns) |-> Draws[((a + (k - 1) * b) % Len(Draws)) + 1]]

\* the outcomes of shuffling a slice of the given length
ShuffleOutcomes(len) ==
    IF len <= MaxShuffleLen
    THEN {q \in [1..len -> 0..(len - 1)] : \A a, b \in 1..len : q[a] = q[b] => a = b}
    ELSE {Rotation(len, by) : by \in 0..(len - 1)}

\* the integers behind the 2 * n * (n - 1) gen_range draws of MultiJittered:
\* draws 2j-1 and 2j are bit j-1 of m
RDraws(n, m) ==
    [k \in 1..(2 * n * (n - 1)) |-> (m \div Pow2((k - 1) \div 2)) % 2]

Outcomes(g) ==
    LET ns == g.num_samples
        us == IF g.kind \in {"Regular", "Hammersley"} THEN {<<>>}
              ELSE {UDraws(ns, a, b) : a \in 0..(Len(Draws) - 1), b \in 0..(Len(Draws) - 1)}
        p1s == IF g.kind \in {"NRooks", "MultiJittered"} THEN ShuffleOutcomes(ns) ELSE {<<>>}
        p2s == IF g.kind = "NRooks" THEN ShuffleOutcomes(ns) ELSE {<<>>}
        rs == IF g.kind = "MultiJittered" /\ g.n >= 2
              THEN {RDraws(g.n, m) : m \in 0..(Pow2(g.n * (g.n - 1)) - 1)}
              ELSE {<<>>}
    IN  {[u |-> u, p1 |-> p1, p2 |-> p2, r |-> r] :
            u \in us, p1 \in p1s, p2 \in p2s, r \in rs}

InitSquareSet ==
    /\ gen \in ValidGens(MaxSetSamples)
    /\ outcome \in Outcomes(gen)
    /\ sset = NoSet
    /\ lhs = V3(0, 0, 0) /\ rhs = V3(0, 0, 0) /\ crossed = NoVec
    /\ pnt = V3(0, 0, 0) /\ nrm = NoVec
    /\ SamplerIdle
    /\ RenderIdle
    /\ GeomIdle
    /\ ShadeIdle

NewSquareSetCall(kind) ==
    /\ sset.st = "none" /\ gen.kind = kind
    /\ sset' = [st |-> "ok", set |-> NewSquareSet(gen, outcome)]
    /\ UNCHANGED <<outcome, lhs, rhs, crossed, pnt, nrm>>
    /\ UNCHANGED samplerVars
    /\ UNCHANGED renderVars
    /\ UNCHANGED geomVars
    /\ UNCHANGED shadeVars

NextSquareSet == \E kind \in GenKinds : NewSquareSetCall(kind)

SpecSquareSet == InitSquareSet /\ [][NextSquareSet]_vars

OnUnitSquare(p) ==
    /\ FLe(FZero, p.x) /\ FLe(p.x, FOne)
    /\ FLe(FZero, p.y) /\ FLe(p.y, FOne)

\* sample k (from 1) of a Jittered set lies in the tile Regular puts point k in
InOwnTile(p, k, n) ==
    LET i == (k - 1) \div n
        j == (k - 1) % n
    IN  /\ FLe(Fin(i, n), p.x) /\ FLe(p.x, Fin(i + 1, n))
        /\ FLe(Fin(j, n), p.y) /\ FLe(p.y, Fin(j + 1, n))

\* C23: every sample of a set new_square_set produces lies on the unit
\* square, between (0, 0) and (1, 1), for each generator and every outcome of
\* the draws; a Jittered sample stays inside its own 1/n x 1/n tile.
C23_OnUnitSquare ==
    sset.st = "ok" =>
        /\ \A k \in 1..Len(sset.set) : OnUnitSquare(sset.set[k])
        /\ gen.kind = "Jittered" =>
               \A k \in 1..Len(sset.set) : InOwnTile(sset.set[k], k, gen.n)

\* the cell, counted from 0, that holds coordinate x on a grid of n cells
\* across the unit interval: floor(x * n)
CellOf(x, n) == LET q == FMul(x, FInt(n)) IN q.n \div q.d

\* each of the n columns and each of the n rows of the n x n grid holds
\* exactly one sample of set
OnePerRowAndColumn(set, n) ==
    \A c \in 0..(n - 1) :
        /\ Cardinality({k \in 1..Len(set) : CellOf(set[k].x, n) = c}) = 1
        /\ Cardinality({k \in 1..Len(set) : CellOf(set[k].y, n) = c}) = 1

\* C29: NRooks::new(n).new_square_set returns exactly n samples, one in each
\* column and one in each row of the n x n grid, for every n >= 1 and every
\* outcome of the two shuffles.
C29_NRooks ==
    (sset.st = "ok" /\ gen.kind = "NRooks" /\ gen.num_samples >= 1) =>
        /\ Len(sset.set) = gen.num_samples
        /\ OnePerRowAndColumn(sset.set, gen.num_samples)

C29_Witness ==
    /\ sset.st = "ok" /\ gen.kind = "NRooks" /\ gen.num_samples = 3
    /\ outcome.p1 = <<2, 0, 1>> /\ outcome.p2 = <<1, 0, 2>>
    /\ CellOf(sset.set[1].x, 3) = 2 /\ CellOf(sset.set[1].y, 3) = 1

\* each cell of the coarse n x n grid holds exactly one sample of set
OnePerCoarseCell(set, n) ==
    \A a, b \in 0..(n - 1) :
        Cardinality({k \in 1..Len(set) :
                        CellOf(set[k].x, n) = a /\ CellOf(set[k].y, n) = b}) = 1

\* C28: MultiJittered::new(n * n).new_square_set returns, without panicking,
\* n * n samples with exactly one in each column and in each row of the fine
\* n^2 x n^2 grid and exactly one in each cell of the coarse n x n grid, for
\* every n >= 1 and every outcome of the random swaps.
C28_MultiJittered ==
    (sset.st # "none" /\ gen.kind = "MultiJittered" /\ gen.n >= 1) =>
        /\ sset.st = "ok"
        /\ Len(sset.set) = gen.n * gen.n
        /\ OnePerRowAndColumn(sset.set, gen.n * gen.n)
        /\ OnePerCoarseCell(sset.set, gen.n)

C28_Witness ==
    /\ sset.st = "ok" /\ gen.kind = "MultiJittered" /\ gen.n = 3
    /\ outcome.p1 = Rotation(9, 0) /\ outcome.r[1] = 1 /\ outcome.r[7] = 1
    /\ CellOf(sset.set[1].x, 9) = 1 /\ CellOf(sset.set[1].y, 9) = 1

\* the base-2 radical inverse of i: bit k of i contributes 2^-(k+1)
RECURSIVE RadicalInverse(_)
RadicalInverse(i) ==
    IF i = 0 THEN FZero
    ELSE FAdd(Fin(i % 2, 2), FMul(Fin(1, 2), RadicalInverse(i \div 2)))

\* C30: point i (from 0) of Hammersley::new(n).new_square_set is
\* (i / n, phi(i)) with phi(i) the base-2 radical inverse of i; phi(i) lies in
\* [0, 1) and differs between distinct indices.
C30_Hammersley ==
    (sset.st = "ok" /\ gen.kind = "Hammersley") =>
        /\ Len(sset.set) = gen.num_samples
        /\ \A k \in 1..Len(sset.set) :
               /\ sset.set[k] = Vec2(Fin(k - 1, gen.num_samples), RadicalInverse(k - 1))
               /\ FLe(FZero, sset.set[k].y) /\ FLt(sset.set[k].y, FOne)
        /\ \A j, k \in 1..Len(sset.set) : sset.set[j].y = sset.set[k].y => j = k

---------------------------------------------------------------------------
(* utility.rs: Vec3 *)

VDot(a, b) == FAdd(FAdd(FMul(a.x, b.x), FMul(a.y, b.y)), FMul(a.z, b.z))

\* Vec3::cross as written: the z component is self.z * rhs.y - self.y * rhs.x
VCross(a, b) ==
    Vec3(FSub(FMul(a.y, b.z), FMul(a.z, b.y)),
         FSub(FMul(a.z, b.x), FMul(a.x, b.z)),
         FSub(FMul(a.z, b.y), FMul(a.y, b.x)))

VSub(a, b) == Vec3(FSub(a.x, b.x), FSub(a.y, b.y), FSub(a.z, b.z))
VAdd(a, b) == Vec3(FAdd(a.x, b.x), FAdd(a.y, b.y), FAdd(a.z, b.z))
VMul(a, f) == Vec3(FMul(a.x, f), FMul(a.y, f), FMul(a.z, f))
VDiv(a, f) == Vec3(FDiv(a.x, f), FDiv(a.y, f), FDiv(a.z, f))
\* f64 / Vec3
FDivV(f, a) == Vec3(FDiv(f, a.x), FDiv(f, a.y), FDiv(f, a.z))

VMag(a) == FSqrt(VDot(a, a))
VNormalise(a) == VDiv(a, VMag(a))

Coords == (-MaxCoord)..MaxCoord
Vectors == {V3(i, j, k) : i \in Coords, j \in Coords, k \in Coords}

---------------------------------------------------------------------------
(* camera.rs: compute_basis_vectors *)

\* no operation in it can panic: f64 division by zero yields NaN or infinity
ComputeBasisVectors(l) ==
    LET w == VNormalise(VSub(l.eye, l.centre))
        u == VNormalise(VCross(l.up, w))
        v == VCross(w, u)
    IN  [st |-> "ok", u |-> u, v |-> v, w |-> w]

InitBasis ==
    /\ loc \in {[eye |-> e, centre |-> c, up |-> up] :
                  e \in Vectors, c \in {V3(0, 0, 0), V3(1, 0, 0)}, up \in Vectors}
    /\ basis = NoBasis
    /\ hits = <<>> /\ found = NoFound
    /\ ray = NoRay /\ obj = NoObject /\ hitres = NoHit
    /\ SamplerIdle /\ gen = NoGen
    /\ RenderIdle
    /\ PureIdle
    /\ ShadeIdle

\* Pinhole::new, ThinLens::new, Fisheye::new, Spherical::new: the basis of the
\* location handed in
CameraNew ==
    /\ basis.st = "none"
    /\ basis' = ComputeBasisVectors(loc)
    /\ UNCHANGED <<loc, hits, found, ray, obj, hitres>>
    /\ UNCHANGED samplerVars
    /\ UNCHANGED renderVars
    /\ UNCHANGED pureVars
    /\ UNCHANGED shadeVars

NextBasis == CameraNew

SpecBasis == InitBasis /\ [][NextBasis]_vars

IsZeroVec(a) == a = V3(0, 0, 0)

\* a and b are non-zero and parallel (by the textbook cross product)
Parallel(a, b) ==
    /\ ~IsZeroVec(a) /\ ~IsZeroVec(b)
    /\ FSub(FMul(a.y, b.z), FMul(a.z, b.y)) = FZero
    /\ FSub(FMul(a.z, b.x), FMul(a.x, b.z)) = FZero
    /\ FSub(FMul(a.x, b.y), FMul(a.y, b.x)) = FZero

\* C7: compute_basis_vectors panics for every Location whose up vector is
\* parallel to eye - centre, instead of returning a basis.
C7_ParallelUpPanics ==
    (basis.st # "none" /\ Parallel(loc.up, VSub(loc.eye, loc.centre))) =>
        basis.st = "panic"

\* C21: for every Location whose up is not parallel to eye - centre, the
\* basis compute_basis_vectors returns is orthogonal (u.v = 0, u.w = 0,
\* v.w = 0) and w is parallel to eye - centre.
C21_BasisOrthonormal ==
    (/\ basis.st # "none"
     /\ ~IsZeroVec(loc.up) /\ ~IsZeroVec(VSub(loc.eye, loc.centre))
     /\ ~Parallel(loc.up, VSub(loc.eye, loc.centre))) =>
        /\ VDot(basis.u, basis.v) = FZero
        /\ VDot(basis.u, basis.w) = FZero
        /\ VDot(basis.v, basis.w) = FZero
        /\ Parallel(basis.w, VSub(loc.eye, loc.centre))

---------------------------------------------------------------------------
(* utility.rs: Vec3::cross on its own *)

InitCross ==
    /\ lhs \in Vectors /\ rhs \in Vectors
    /\ crossed = NoVec
    /\ outcome = NoOutcome /\ sset = NoSet /\ pnt = V3(0, 0, 0) /\ nrm = NoVec
    /\ SamplerIdle /\ gen = NoGen
    /\ RenderIdle
    /\ GeomIdle
    /\ ShadeIdle

\* self and rhs are passed by value (Vec3 is Copy)
CrossCall ==
    /\ crossed.st = "none"
    /\ crossed' = [st |-> "ok", v |-> VCross(lhs, rhs)]
    /\ UNCHANGED <<outcome, sset, lhs, rhs, pnt, nrm>>
    /\ UNCHANGED samplerVars
    /\ UNCHANGED renderVars
    /\ UNCHANGED geomVars
    /\ UNCHANGED shadeVars

NextCross == CrossCall

SpecCross == InitCross /\ [][NextCross]_vars

\* the cross product of a and b
CrossProduct(a, b) ==
    Vec3(FSub(FMul(a.y, b.z), FMul(a.z, b.y)),
         FSub(FMul(a.z, b.x), FMul(a.x, b.z)),
         FSub(FMul(a.x, b.y), FMul(a.y, b.x)))

\* C22: a.cross(b) is the cross product of a and b: it has the three
\* components of the definition, is orthogonal to a and to b, and is the
\* negation of b.cross(a).
C22_CrossProduct ==
    crossed.st = "ok" =>
        /\ crossed.v = CrossProduct(lhs, rhs)
        /\ VDot(crossed.v, lhs) = FZero
        /\ VDot(crossed.v, rhs) = FZero
        /\ crossed.v = VNeg(VCross(rhs, lhs))

---------------------------------------------------------------------------
(* world.rs: World::hit_objects *)

\* what an object's hit can return: None, or Some with a distance
Some(t) == [some |-> TRUE, t |-> t]
None == [some |-> FALSE, t |-> FZero]
HitResults == {None, Some(FInt(1)), Some(FInt(2)), Some(FInf(1)), Some(FNaN)}

\* f64::partial_cmp
PartialCmp(a, b) ==
    IF IsNaN(a) \/ IsNaN(b) THEN "none"
    ELSE IF FLt(a, b) THEN "less"
    ELSE IF FLt(b, a) THEN "greater"
    ELSE "equal"

\* filter_map: the objects (by position) whose hit returned Some, in order
RECURSIVE Candidates(_, _)
Candidates(hs, k) ==
    IF k > Len(hs) THEN <<>>
    ELSE (IF hs[k].some THEN <<k>> ELSE <<>>) \o Candidates(hs, k + 1)

\* Iterator::min_by folding from candidate k on: the later element replaces
\* the running minimum only when the comparison says Greater
RECURSIVE MinByFold(_, _, _, _)
MinByFold(hs, cands, k, best) ==
    IF k > Len(cands) THEN [st |-> "Some", obj |-> best, t |-> hs[best].t]
    ELSE LET c == PartialCmp(hs[best].t, hs[cands[k]].t)
         IN  IF c = "none" THEN [st |-> "panic", obj |-> 0, t |-> FZero]
             ELSE MinByFold(hs, cands, k + 1, IF c = "greater" THEN cands[k] ELSE best)

\* a min_by that keeps the later of two equal elements
RECURSIVE MinByFoldLast(_, _, _, _)
MinByFoldLast(hs, cands, k, best) ==
    IF k > Len(cands) THEN [st |-> "Some", obj |-> best, t |-> hs[best].t]
    ELSE LET c == PartialCmp(hs[best].t, hs[cands[k]].t)
         IN  IF c = "none" THEN [st |-> "panic", obj |-> 0, t |-> FZero]
             ELSE MinByFoldLast(hs, cands, k + 1, IF c = "less" THEN best ELSE cands[k])

HitObjectsLastWins(hs) ==
    LET cands == Candidates(hs, 1)
    IN  IF Len(cands) = 0 THEN [st |-> "None", obj |-> 0, t |-> FZero]
        ELSE MinByFoldLast(hs, cands, 2, cands[1])

\* World::hit_objects, given what each object's hit returns
HitObjects(hs) ==
    LET cands == Candidates(hs, 1)
    IN  IF Len(cands) = 0 THEN [st |-> "None", obj |-> 0, t |-> FZero]
        ELSE MinByFold(hs, cands, 2, cands[1])

RECURSIVE SeqsUpTo(_, _)
SeqsUpTo(S, n) ==
    IF n = 0 THEN {<<>>}
    ELSE LET shorter == SeqsUpTo(S, n - 1)
         IN  shorter \cup {Append(q, x) : q \in {r \in shorter : Len(r) = n - 1}, x \in S}

InitWorld ==
    /\ hits \in SeqsUpTo(HitResults, MaxObjects)
    /\ found = NoFound
    /\ loc = NoLocation /\ basis = NoBasis
    /\ ray = NoRay /\ obj = NoObject /\ hitres = NoHit
    /\ SamplerIdle /\ gen = NoGen
    /\ RenderIdle
    /\ PureIdle
    /\ ShadeIdle

HitObjectsCall ==
    /\ found.st = "none"
    /\ found' = HitObjects(hits)
    /\ UNCHANGED <<loc, basis, hits, ray, obj, hitres>>
    /\ UNCHANGED samplerVars
    /\ UNCHANGED renderVars
    /\ UNCHANGED pureVars
    /\ UNCHANGED shadeVars

NextWorld == HitObjectsCall

SpecWorld == InitWorld /\ [][NextWorld]_vars

\* C8: hit_objects returns the intersection with the minimum t among the
\* objects whose hit returns Some, the earliest object on an exact tie, and
\* None if and only if no object's hit returns Some.
C8_NearestHit ==
    found.st \in {"Some", "None"} =>
        /\ found.st = "None" <=> \A j \in 1..Len(hits) : ~hits[j].some
        /\ found.st = "Some" =>
              /\ found.obj \in 1..Len(hits)
              /\ hits[found.obj].some /\ found.t = hits[found.obj].t
              /\ \A j \in 1..Len(hits) : (hits[j].some /\ j # found.obj) =>
                    /\ FLe(found.t, hits[j].t)
                    /\ j < found.obj => FLt(hits[j].t, found.t) \/ FLt(found.t, hits[j].t)

C8_Witness ==
    /\ hits = <<Some(FInt(2)), Some(FInt(1)), Some(FInt(1))>>
    /\ found.st = "Some" /\ found.obj = 2

\* C9: whenever an object's hit returns a NaN distance hit_objects panics, the
\* case of the NaN candidate being the only hit included.
C9_NaNIsFatal ==
    (found.st # "none" /\ \E j \in 1..Len(hits) : hits[j].some /\ IsNaN(hits[j].t)) =>
        found.st = "panic"

---------------------------------------------------------------------------
(* geometry.rs: Geometry::hit *)

\* 0.0001
EPSILON == Fin(1, 10000)

Plane(point, normal) == [kind |-> "Plane", a |-> point, b |-> normal, r |-> FZero]
Sphere(centre, radius) == [kind |-> "Sphere", a |-> centre, b |-> V3(0, 0, 0), r |-> radius]
Cuboid(min, max) == [kind |-> "Cuboid", a |-> min, b |-> max, r |-> FZero]

HitSome(t) == [st |-> "Some", t |-> t]
HitNone == [st |-> "None", t |-> FZero]

PlaneHit(o, r) ==
    LET offset == VSub(o.a, r.origin)
        t == FDiv(VDot(offset, o.b), VDot(r.direction, o.b))
    IN  IF FGt(t, EPSILON) THEN HitSome(t) ELSE HitNone

\* Sphere::hit trying the far root before the near one
SphereHitFarFirst(o, r) ==
    LET offset == VSub(r.origin, o.a)
        a == VDot(r.direction, r.direction)
        b == FMul(FInt(2), VDot(offset, r.direction))
        c == FSub(VDot(offset, offset), FMul(o.r, o.r))
        discriminator == FSub(FMul(b, b), FMul(FMul(FInt(4), a), c))
        e == FSqrt(discriminator)
        denominator == FMul(FInt(2), a)
        t1 == FDiv(FSub(FNeg(b), e), denominator)
        t2 == FDiv(FAdd(FNeg(b), e), denominator)
    IN  IF FGe(discriminator, FZero)
        THEN (IF FGt(t2, EPSILON) THEN HitSome(t2)
              ELSE IF FGt(t1, EPSILON) THEN HitSome(t1)
              ELSE HitNone)
        ELSE HitNone

SphereHit(o, r) ==
    LET offset == VSub(r.origin, o.a)
        a == VDot(r.direction, r.direction)
        b == FMul(FInt(2), VDot(offset, r.direction))
        c == FSub(VDot(offset, offset), FMul(o.r, o.r))
        discriminator == FSub(FMul(b, b), FMul(FMul(FInt(4), a), c))
        e == FSqrt(discriminator)
        denominator == FMul(FInt(2), a)
        t1 == FDiv(FSub(FNeg(b), e), denominator)
        t2 == FDiv(FAdd(FNeg(b), e), denominator)
    IN  IF FGe(discriminator, FZero)
        THEN (IF FGt(t1, EPSILON) THEN HitSome(t1)
              ELSE IF FGt(t2, EPSILON) THEN HitSome(t2)
              ELSE HitNone)
        ELSE HitNone

\* the slabs of the cuboid along the ray: the largest near parameter and the
\* smallest far parameter
CuboidSlab(o, r) ==
    LET invdir == FDivV(FOne, r.direction)
        t_x1 == FMul(FSub(o.a.x, r.origin.x), invdir.x)
        t_x2 == FMul(FSub(o.b.x, r.origin.x), invdir.x)
        t_y1 == FMul(FSub(o.a.y, r.origin.y), invdir.y)
        t_y2 == FMul(FSub(o.b.y, r.origin.y), invdir.y)
        t_z1 == FMul(FSub(o.a.z, r.origin.z), invdir.z)
        t_z2 == FMul(FSub(o.b.z, r.origin.z), invdir.z)
        t_xn == FMin(t_x1, t_x2)
        t_xf == FMax(t_x1, t_x2)
        t_yn == FMin(t_y1, t_y2)
        t_yf == FMax(t_y1, t_y2)
        t_zn == FMin(t_z1, t_z2)
        t_zf == FMax(t_z1, t_z2)
    IN  [t_min |-> FMax(t_xn, FMax(t_yn, t_zn)),
         t_max |-> FMin(t_xf, FMin(t_yf, t_zf))]

\* the slab test as written: no comparison with EPSILON
CuboidHit(o, r) ==
    LET t_min == CuboidSlab(o, r).t_min
        t_max == CuboidSlab(o, r).t_max
    IN  IF FLt(t_min, t_max)
        THEN HitSome(IF FLt(t_min, FZero) THEN t_max ELSE t_min)
        ELSE HitNone

Hit(o, r) ==
    CASE o.kind = "Plane" -> PlaneHit(o, r)
      [] o.kind = "Sphere" -> SphereHit(o, r)
      [] o.kind = "Cuboid" -> CuboidHit(o, r)

Planes ==
    {Plane(p, n) : p \in {V3(0, 0, 0), V3(0, 1, 0)},
                   n \in {V3(0, 0, -1), V3(0, 1, 0), V3(1, 1, 0)}}
Spheres ==
    {Sphere(c, FInt(rad)) : c \in {V3(0, 0, 0), V3(0, 0, -2)}, rad \in 1..2}
Cuboids ==
    {Cuboid(V3(0, 0, 0), V3(1, 1, 1)), Cuboid(V3(-1, -1, -1), V3(1, 1, 1)),
     Cuboid(V3(1, 0, 0), V3(0, 1, 1)), Cuboid(V3(1, 1, 1), V3(2, 2, 2))}

Directions ==
    {V3(i, j, k) : i \in -1..1, j \in -1..1, k \in -1..1} \ {V3(0, 0, 0)}

InitHit ==
    /\ ray \in {[origin |-> o, direction |-> d] : o \in Vectors, d \in Directions}
    /\ obj \in Planes \cup Spheres \cup Cuboids
    /\ hitres = NoHit
    /\ loc = NoLocation /\ basis = NoBasis
    /\ hits = <<>> /\ found = NoFound
    /\ SamplerIdle /\ gen = NoGen
    /\ RenderIdle
    /\ PureIdle
    /\ ShadeIdle

HitCall(kind) ==
    /\ hitres.st = "none" /\ obj.kind = kind
    /\ hitres' = Hit(obj, ray)
    /\ UNCHANGED <<loc, basis, hits, found, ray, obj>>
    /\ UNCHANGED samplerVars
    /\ UNCHANGED renderVars
    /\ UNCHANGED pureVars
    /\ UNCHANGED shadeVars

NextHit == HitCall("Plane") \/ HitCall("Sphere") \/ HitCall("Cuboid")

SpecHit == InitHit /\ [][NextHit]_vars

\* C10: for Plane, Sphere and Cuboid alike, whenever hit returns Some the
\* returned t is strictly greater than EPSILON.
C10_HitBeyondEpsilon ==
    hitres.st = "Some" => FGt(hitres.t, EPSILON)

\* C11: Cuboid::hit returns Some exactly when t_min < t_max and
\* t_max > EPSILON; the returned t is t_max when t_min < 0 and t_min
\* otherwise, so a cuboid entirely behind the ray origin gives None.
C11_CuboidSlabContract ==
    (hitres.st # "none" /\ obj.kind = "Cuboid") =>
        LET t_min == CuboidSlab(obj, ray).t_min
            t_max == CuboidSlab(obj, ray).t_max
        IN  /\ hitres.st = "Some" <=> (FLt(t_min, t_max) /\ FGt(t_max, EPSILON))
            /\ hitres.st = "Some" =>
                    hitres.t = (IF FLt(t_min, FZero) THEN t_max ELSE t_min)

\* the ray of the tests plane_hit and sphere_hit
TestRay == [origin |-> V3(0, 0, 100), direction |-> V3(0, 0, -1)]

\* C12: Plane::hit returns t = (point - origin).normal / direction.normal,
\* a parameter at which the ray is on the plane, exactly when that t is
\* greater than EPSILON and direction.normal is not 0; the plane through the
\* origin with normal (0,0,-1) and the test ray give t = 100.
C12_PlaneHitContract ==
    /\ PlaneHit(Plane(V3(0, 0, 0), V3(0, 0, -1)), TestRay) = HitSome(FInt(100))
    /\ (hitres.st # "none" /\ obj.kind = "Plane") =>
            LET dn == VDot(ray.direction, obj.b)
                t == FDiv(VDot(VSub(obj.a, ray.origin), obj.b), dn)
            IN  /\ hitres.st = "Some" <=> (FGt(t, EPSILON) /\ ~FEq(dn, FZero))
                /\ hitres.st = "Some" =>
                        /\ hitres.t = t
                        /\ FEq(VDot(VAdd(ray.origin, VMul(ray.direction, t)), obj.b),
                               VDot(obj.a, obj.b))

\* C13: for every ray with direction.normal = 0, Plane::hit returns None.
C13_ParallelRejected ==
    (hitres.st # "none" /\ obj.kind = "Plane"
        /\ FEq(VDot(ray.direction, obj.b), FZero)) => hitres.st = "None"

\* C14: Sphere::hit returns None when the discriminant is negative;
\* otherwise t_near <= t_far, and it returns t_near when t_near > EPSILON,
\* else t_far when t_far > EPSILON, else None; the sphere of radius 50 at the
\* origin and the test ray give t = 50.
C14_SphereHitContract ==
    /\ SphereHit(Sphere(V3(0, 0, 0), FInt(50)), TestRay) = HitSome(FInt(50))
    /\ (hitres.st # "none" /\ obj.kind = "Sphere") =>
            LET oc == VSub(ray.origin, obj.a)
                a == VDot(ray.direction, ray.direction)
                b == FMul(FInt(2), VDot(oc, ray.direction))
                c == FSub(VDot(oc, oc), FMul(obj.r, obj.r))
                dsc == FSub(FMul(b, b), FMul(FInt(4), FMul(a, c)))
                t_near == FDiv(FSub(FNeg(b), FSqrt(dsc)), FMul(FInt(2), a))
                t_far == FDiv(FAdd(FNeg(b), FSqrt(dsc)), FMul(FInt(2), a))
            IN  IF FLt(dsc, FZero) THEN hitres.st = "None"
                ELSE /\ FLe(t_near, t_far)
                     /\ hitres = (IF FGt(t_near, EPSILON) THEN HitSome(t_near)
                                  ELSE IF FGt(t_far, EPSILON) THEN HitSome(t_far)
                                  ELSE HitNone)

\* a ray starting inside a sphere: the near root is behind the origin and the
\* far root is returned
C14_Witness ==
    /\ obj.kind = "Sphere" /\ hitres.st = "Some"
    /\ FLt(VDot(VSub(ray.origin, obj.a), VSub(ray.origin, obj.a)), FMul(obj.r, obj.r))
    /\ FGt(hitres.t, EPSILON)

---------------------------------------------------------------------------
(* light.rs: Ambient and PointLight *)

Ambient(scale, c) ==
    [kind |-> "Ambient", scale |-> scale, colour |-> c, location |-> V3(0, 0, 0)]
PointLight(scale, location, c) ==
    [kind |-> "Point", scale |-> scale, colour |-> c, location |-> location]

LightDirection(l, hit) ==
    IF l.kind = "Ambient" THEN V3(0, 0, 0)
    ELSE VNormalise(VSub(l.location, hit.hit_point))

LightRadiance(l) == CScale(l.colour, l.scale)

\* Iterator::any over the world's objects, from object k on
RECURSIVE AnyOccluder(_, _, _, _)
AnyOccluder(objects, k, r, distance_squared) ==
    IF k > Len(objects) THEN FALSE
    ELSE LET h == Hit(objects[k].geom, r)
         IN  IF h.st = "Some" /\ FLt(FMul(h.t, h.t), distance_squared) THEN TRUE
             ELSE AnyOccluder(objects, k + 1, r, distance_squared)

\* an in_shadow that compares the distance with <= instead of <
RECURSIVE AnyOccluderUpTo(_, _, _, _)
AnyOccluderUpTo(objects, k, r, distance_squared) ==
    IF k > Len(objects) THEN FALSE
    ELSE LET h == Hit(objects[k].geom, r)
         IN  IF h.st = "Some" /\ FLe(FMul(h.t, h.t), distance_squared) THEN TRUE
             ELSE AnyOccluderUpTo(objects, k + 1, r, distance_squared)

InShadowUpTo(l, r, w) ==
    IF l.kind = "Ambient" THEN FALSE
    ELSE LET offset == VSub(l.location, r.origin)
         IN  AnyOccluderUpTo(w.objects, 1, r, VDot(offset, offset))

InShadow(l, r, w) ==
    IF l.kind = "Ambient" THEN FALSE
    ELSE LET offset == VSub(l.location, r.origin)
         IN  AnyOccluder(w.objects, 1, r, VDot(offset, offset))

---------------------------------------------------------------------------
(* brdf.rs: Lambertian and GlossySpecular *)

\* std::f64::consts::FRAC_1_PI, as a fraction
FRAC_1_PI == Fin(7, 22)

Lambertian(reflectance, c) == [rho |-> CScale(c, reflectance)]
LambertianCall(l) == CScale(l.rho, FRAC_1_PI)
LambertianRho(l) == l.rho

GlossySpecular(reflectance, shininess, c) ==
    [rho |-> CScale(c, reflectance), exponent |-> shininess]

\* f64::powf for an exponent that is a natural number
RECURSIVE FPowf(_, _)
FPowf(x, n) == IF n = 0 THEN FOne ELSE FMul(x, FPowf(x, n - 1))

GlossySpecularCall(g, hit, in_dir, out_dir) ==
    LET n_dot_in == VDot(hit.normal, in_dir)
        r == VAdd(VNeg(in_dir), VMul(VMul(hit.normal, FInt(2)), n_dot_in))
        r_dot_out == VDot(r, out_dir)
    IN  IF FGt(r_dot_out, FZero) THEN CScale(g.rho, FPowf(r_dot_out, g.exponent))
        ELSE Black

---------------------------------------------------------------------------
(* material.rs: Matte and Phong *)

Matte(ka, kd, c) ==
    [kind |-> "Matte", ambient |-> Lambertian(ka, c), diffuse |-> Lambertian(kd, c)]
Phong(ka, kd, ks, shininess, c) ==
    [kind |-> "Phong", ambient |-> Lambertian(ka, c), diffuse |-> Lambertian(kd, c),
     specular |-> GlossySpecular(ks, shininess, c)]

\* the closure folded over world.lights: what light k adds to the accumulator
Contribution(m, hit, w, k) ==
    LET light == w.lights[k]
        out_dir == VNeg(hit.ray.direction)
        in_dir == LightDirection(light, hit)
        angle == VDot(hit.normal, in_dir)
        base_diffuse == LambertianCall(m.diffuse)
        base == IF m.kind = "Phong"
                THEN CAdd(base_diffuse, GlossySpecularCall(m.specular, hit, in_dir, out_dir))
                ELSE base_diffuse
    IN  CScale(CMul(base, LightRadiance(light)), angle)

\* a closure that does not cast the shadow ray
AddsUnshadowed(hit, w, k) ==
    LET light == w.lights[k]
        in_dir == LightDirection(light, hit)
        angle == VDot(hit.normal, in_dir)
    IN  FGt(angle, FZero)

\* whether the closure takes the branch that adds light k
Adds(hit, w, k) ==
    LET light == w.lights[k]
        in_dir == LightDirection(light, hit)
        angle == VDot(hit.normal, in_dir)
        shadowRay == [origin |-> hit.hit_point, direction |-> in_dir]
    IN  IF FGt(angle, FZero) THEN ~InShadow(light, shadowRay, w) ELSE FALSE

\* a fold that stops at the first light it skips
RECURSIVE ShadeFoldBreak(_, _, _, _, _)
ShadeFoldBreak(m, hit, w, k, acc) ==
    IF k > Len(w.lights) THEN acc
    ELSE IF Adds(hit, w, k)
         THEN ShadeFoldBreak(m, hit, w, k + 1,
                  [acc EXCEPT !.colour = CAdd(acc.colour, Contribution(m, hit, w, k)),
                              !.lit = acc.lit \cup {k}])
         ELSE acc

\* Iterator::fold over world.lights, from light k on
RECURSIVE ShadeFold(_, _, _, _, _)
ShadeFold(m, hit, w, k, acc) ==
    IF k > Len(w.lights) THEN acc
    ELSE IF Adds(hit, w, k)
         THEN ShadeFold(m, hit, w, k + 1,
                  [acc EXCEPT !.colour = CAdd(acc.colour, Contribution(m, hit, w, k)),
                              !.lit = acc.lit \cup {k}])
         ELSE ShadeFold(m, hit, w, k + 1, acc)

\* the ambient term both shade functions start the fold with
AmbientTerm(m, w) == CMul(LambertianRho(m.ambient), LightRadiance(w.ambient))

\* Matte::shade and Phong::shade; lit is the set of lights that were added
Shade(m, hit, w) ==
    ShadeFold(m, hit, w, 1, [st |-> "ok", colour |-> AmbientTerm(m, w), lit |-> {}])

---------------------------------------------------------------------------
(* geometry.rs: Geometry::normal *)

FAbs(a) == IF IsNaN(a) THEN FNaN ELSE [a EXCEPT !.n = Abs(a.n)]
\* f64::trunc
FTrunc(a) == IF IsFin(a) THEN FInt(Sgn(a.n) * (Abs(a.n) \div a.d)) ELSE a

PlaneNormal(o, p) == o.b
SphereNormal(o, p) == VNormalise(VSub(p, o.a))
CuboidNormal(o, p) ==
    LET centre == VMul(VAdd(o.a, o.b), Fin(1, 2))
        offset == VSub(p, centre)
        divisor == VMul(VSub(o.a, o.b), Fin(1, 2))
        bias == FAdd(FOne, EPSILON)
    IN  VNormalise(Vec3(FTrunc(FMul(FDiv(offset.x, FAbs(divisor.x)), bias)),
                        FTrunc(FMul(FDiv(offset.y, FAbs(divisor.y)), bias)),
                        FTrunc(FMul(FDiv(offset.z, FAbs(divisor.z)), bias))))

Normal(o, p) ==
    CASE o.kind = "Plane" -> PlaneNormal(o, p)
      [] o.kind = "Sphere" -> SphereNormal(o, p)
      [] o.kind = "Cuboid" -> CuboidNormal(o, p)

\* the points normal is asked for: those of a grid that lie on the surface
SurfaceCoords == (-MaxCoord - 1)..(MaxCoord + 1)

FBetween(x, a, b) == FLe(FMin(a, b), x) /\ FLe(x, FMax(a, b))

OnSurface(o, p) ==
    CASE o.kind = "Plane" -> VDot(VSub(p, o.a), o.b) = FZero
      [] o.kind = "Sphere" -> VDot(VSub(p, o.a), VSub(p, o.a)) = FMul(o.r, o.r)
      [] o.kind = "Cuboid" ->
            /\ FBetween(p.x, o.a.x, o.b.x)
            /\ FBetween(p.y, o.a.y, o.b.y)
            /\ FBetween(p.z, o.a.z, o.b.z)
            /\ \/ p.x \in {o.a.x, o.b.x}
               \/ p.y \in {o.a.y, o.b.y}
               \/ p.z \in {o.a.z, o.b.z}

InitNormal ==
    /\ obj \in Planes \cup Spheres \cup Cuboids
    /\ pnt \in {q \in {V3(i, j, k) : i \in SurfaceCoords, j \in SurfaceCoords,
                                     k \in SurfaceCoords} : OnSurface(obj, q)}
    /\ nrm = NoVec
    /\ outcome = NoOutcome /\ sset = NoSet
    /\ lhs = V3(0, 0, 0) /\ rhs = V3(0, 0, 0) /\ crossed = NoVec
    /\ loc = NoLocation /\ basis = NoBasis
    /\ hits = <<>> /\ found = NoFound
    /\ ray = NoRay /\ hitres = NoHit
    /\ SamplerIdle /\ gen = NoGen
    /\ RenderIdle
    /\ ShadeIdle

NormalCall(kind) ==
    /\ nrm.st = "none" /\ obj.kind = kind
    /\ nrm' = [st |-> "ok", v |-> Normal(obj, pnt)]
    /\ UNCHANGED <<outcome, sset, lhs, rhs, crossed, pnt>>
    /\ UNCHANGED samplerVars
    /\ UNCHANGED renderVars
    /\ UNCHANGED geomVars
    /\ UNCHANGED shadeVars

NextNormal == NormalCall("Plane") \/ NormalCall("Sphere") \/ NormalCall("Cuboid")

SpecNormal == InitNormal /\ [][NextNormal]_vars

\* v has magnitude 1, up to the rounding of the square root normalise takes
IsUnitVec(v) ==
    LET q == VDot(v, v)
    IN  /\ FLe(FOne, q)
        /\ FLt(q, FMul(Fin(SqrtScale + 1, SqrtScale), Fin(SqrtScale + 1, SqrtScale)))

\* C24: normal(hit_point) has unit magnitude for every plane, sphere and
\* cuboid and every point on its surface.
C24_UnitNormal ==
    nrm.st = "ok" => IsUnitVec(nrm.v)

---------------------------------------------------------------------------
(* tracer.rs: MultipleObjectTracer::trace_ray *)

\* an object of the world: its shape, its colour and its material
Object(geom, c, material) == [geom |-> geom, colour |-> c, material |-> material]

World(background, ambient, lights, objects) ==
    [background |-> background, ambient |-> ambient, lights |-> lights,
     objects |-> objects]

\* what each object's hit returns for ray r, in the order of world.objects;
\* hit_objects calls each object's hit once
RECURSIVE ObjectHitsUpTo(_, _, _)
ObjectHitsUpTo(w, r, k) ==
    IF k = 0 THEN <<>>
    ELSE LET h == Hit(w.objects[k].geom, r)
         IN  Append(ObjectHitsUpTo(w, r, k - 1),
                    IF h.st = "Some" THEN Some(h.t) ELSE None)

ObjectHits(w, r) == ObjectHitsUpTo(w, r, Len(w.objects))

\* the rest of trace_ray, given what each object's hit returned
TraceRayGiven(w, hs) ==
    LET f == HitObjects(hs)
    IN  IF f.st = "panic" THEN [st |-> "panic", colour |-> Black, obj |-> 0]
        ELSE IF f.st = "Some"
             THEN [st |-> "ok", colour |-> w.objects[f.obj].colour, obj |-> f.obj]
             ELSE [st |-> "ok", colour |-> w.background, obj |-> 0]

TraceRay(w, r) == TraceRayGiven(w, ObjectHits(w, r))

Red == Colour(FOne, FZero, FZero)
Yellow == Colour(FOne, FOne, FZero)
SkyBlue == Colour(Fin(7, 10), Fin(7, 10), FOne)

TraceObjects ==
    {Object(Sphere(V3(0, 0, 0), FOne), Red, Matte(Fin(1, 4), Fin(13, 20), Red)),
     Object(Sphere(V3(0, 0, -2), FInt(2)), Yellow, Matte(FOne, FOne, Yellow)),
     Object(Plane(V3(0, 0, -1), V3(0, 0, 1)), White,
            Phong(Fin(1, 4), Fin(1, 2), Fin(1, 2), 2, White))}

TraceRays ==
    {[origin |-> o, direction |-> d] :
        o \in {V3(0, 0, 2), V3(0, 2, 2)}, d \in {V3(0, 0, -1), V3(0, 1, 0), V3(0, -1, -1)}}

TraceLights ==
    {<<>>, <<PointLight(FInt(3), V3(0, 0, 4), White)>>}

InitTrace ==
    /\ ray \in TraceRays
    /\ world \in {World(bg, Ambient(sc, White), ls, os) :
                    bg \in {Black, SkyBlue}, sc \in {FOne, Fin(1, 2)},
                    ls \in TraceLights, os \in SeqsUpTo(TraceObjects, 2)}
    /\ traced = NoTraced
    /\ isect = NoIsect /\ shaded = NoShaded /\ shadow = NoShadow
    /\ colour = Black /\ rgb = NoRgb
    /\ loc = NoLocation /\ basis = NoBasis
    /\ hits = <<>> /\ found = NoFound /\ obj = NoObject /\ hitres = NoHit
    /\ SamplerIdle /\ gen = NoGen
    /\ RenderIdle
    /\ PureIdle

TraceRayCall ==
    /\ traced.st = "none"
    /\ \E hs \in {ObjectHits(world, ray)} : traced' = TraceRayGiven(world, hs)
    /\ UNCHANGED <<world, isect, shaded, shadow, colour, rgb>>
    /\ UNCHANGED geomVars
    /\ UNCHANGED samplerVars
    /\ UNCHANGED renderVars
    /\ UNCHANGED pureVars

NextTrace == TraceRayCall

SpecTrace == InitTrace /\ [][NextTrace]_vars

\* the Intersection of ray r with the nearest object f: the hit point is
\* origin + t * direction and the normal is the object's normal there
IntersectionAt(w, r, f) ==
    LET hit_point == VAdd(r.origin, VMul(r.direction, f.t))
    IN  [ray |-> r, t |-> f.t, hit_point |-> hit_point,
         normal |-> Normal(w.objects[f.obj].geom, hit_point),
         material |-> w.objects[f.obj].material]

\* C15: when hit_objects returns an intersection, trace_ray returns the hit
\* material's shade(intersection); when it returns None, trace_ray returns
\* the world's background colour.
C15_TraceShades ==
    traced.st = "ok" =>
        LET f == HitObjects(ObjectHits(world, ray))
        IN  IF f.st = "Some"
            THEN traced.colour =
                     Shade(world.objects[f.obj].material,
                           IntersectionAt(world, ray, f), world).colour
            ELSE traced.colour = world.background

---------------------------------------------------------------------------
(* material.rs: shading one intersection *)

\* objects between the hit point and the lights, or beyond them
ShadeObjects ==
    {<<Object(Sphere(V3(0, 0, 1), Fin(1, 2)), Red, NoMaterial)>>,
     <<Object(Sphere(V3(0, 0, 4), FOne), Red, NoMaterial),
       Object(Sphere(V3(0, 3, 3), FOne), Red, NoMaterial)>>}

ShadeLights ==
    {PointLight(FOne, V3(0, 0, 2), White),
     PointLight(FInt(2), V3(3, 0, 4), Yellow),
     PointLight(FOne, V3(0, 0, -2), White),
     Ambient(FOne, White)}

\* the intersections shaded: a hit at the origin of a surface facing +z
ShadeHits ==
    {[ray |-> [origin |-> VSub(V3(0, 0, 0), q[1]), direction |-> q[1]],
      t |-> FOne, hit_point |-> V3(0, 0, 0), normal |-> V3(0, 0, 1),
      material |-> q[2]] :
        q \in {<<V3(0, 0, -1), Matte(Fin(1, 2), FOne, White)>>,
               <<V3(0, 0, -1), Matte(Fin(1, 4), Fin(13, 20), Yellow)>>,
               <<V3(0, 0, -1), Phong(Fin(1, 2), Fin(1, 2), Fin(1, 2), 2, White)>>,
               <<Vec3(FZero, Fin(-3, 5), Fin(-4, 5)),
                 Phong(Fin(1, 2), Fin(1, 2), Fin(1, 2), 2, White)>>}}

InitShade ==
    /\ isect \in ShadeHits
    /\ world \in {World(Black, Ambient(FOne, White), ls, os) :
                    ls \in SeqsUpTo(ShadeLights, MaxLights), os \in ShadeObjects}
    /\ shaded = NoShaded
    /\ traced = NoTraced /\ shadow = NoShadow
    /\ colour = Black /\ rgb = NoRgb
    /\ GeomIdle
    /\ SamplerIdle /\ gen = NoGen
    /\ RenderIdle
    /\ PureIdle

ShadeCall(kind) ==
    /\ shaded.st = "none" /\ isect.material.kind = kind
    /\ shaded' = Shade(isect.material, isect, world)
    /\ UNCHANGED <<world, isect, traced, shadow, colour, rgb>>
    /\ UNCHANGED geomVars
    /\ UNCHANGED samplerVars
    /\ UNCHANGED renderVars
    /\ UNCHANGED pureVars

NextShade == ShadeCall("Matte") \/ ShadeCall("Phong")

SpecShade == InitShade /\ [][NextShade]_vars

\* normal . in_dir for light k of the world
Angle(k) == VDot(isect.normal, LightDirection(world.lights[k], isect))

\* whether light k reports the hit point as in shadow
Shadowed(k) ==
    InShadow(world.lights[k],
             [origin |-> isect.hit_point,
              direction |-> LightDirection(world.lights[k], isect)], world)

\* C16: a light adds to the accumulated colour if and only if
\* normal . in_dir > 0 and in_shadow is false; when every light is skipped
\* the result is ambient.rho * ambient_light.radiance.
C16_LightAddsIffFacingAndLit ==
    shaded.st = "ok" =>
        /\ \A k \in 1..Len(world.lights) :
               k \in shaded.lit <=> (FGt(Angle(k), FZero) /\ ~Shadowed(k))
        /\ shaded.lit = {} =>
               shaded.colour = CMul(isect.material.ambient.rho,
                                    CScale(world.ambient.colour, world.ambient.scale))

\* every light is skipped, one because it is shadowed and one because it is
\* behind the surface
C16_Witness ==
    /\ shaded.st = "ok" /\ shaded.lit = {}
    /\ \E k \in 1..Len(world.lights) : FGt(Angle(k), FZero) /\ Shadowed(k)
    /\ \E k \in 1..Len(world.lights) : ~FGt(Angle(k), FZero)

\* the world with its lights visited in the order pi
Reordered(pi) ==
    [world EXCEPT !.lights = [k \in 1..Len(world.lights) |-> world.lights[pi[k]]]]

\* C17: for every permutation of the light list shade returns the same
\* colour, and the same lights are skipped.
C17_OrderIndependent ==
    shaded.st = "ok" =>
        \A pi \in Permutations(1..Len(world.lights)) :
            LET other == Shade(isect.material, isect, Reordered(pi))
            IN  /\ other.colour = shaded.colour
                /\ {pi[k] : k \in other.lit} = shaded.lit

\* two channels that n rounded additions of non-negative terms, made in two
\* different orders, can produce
ChannelClose(a, b, n) ==
    FLe(FAbs(FSub(a, b)), FMul(Fin(4 * n, Pow2(SigBits)), FMin(a, b)))

\* C17, amended: for every permutation of the light list the same lights are
\* skipped, and the colours agree up to the rounding of the additions: each
\* channel differs by at most 4 * n / 2^SigBits of its value, n being the
\* number of lights added, and not at all when at most one light is added.
C17_OrderIndependentUpToRounding ==
    shaded.st = "ok" =>
        \A pi \in Permutations(1..Len(world.lights)) :
            LET other == Shade(isect.material, isect, Reordered(pi))
                n == Cardinality(shaded.lit)
            IN  /\ {pi[k] : k \in other.lit} = shaded.lit
                /\ ChannelClose(other.colour.r, shaded.colour.r, n)
                /\ ChannelClose(other.colour.g, shaded.colour.g, n)
                /\ ChannelClose(other.colour.b, shaded.colour.b, n)
                /\ n <= 1 => other.colour = shaded.colour

\* two lights are added and one is skipped, and another order of the lights
\* gives another colour
C17_Witness ==
    /\ shaded.st = "ok" /\ Cardinality(shaded.lit) >= 2
    /\ Cardinality(shaded.lit) < Len(world.lights)
    /\ \E pi \in Permutations(1..Len(world.lights)) :
           Shade(isect.material, isect, Reordered(pi)).colour # shaded.colour

---------------------------------------------------------------------------
(* light.rs: Light::in_shadow *)

\* objects on the z axis: before a light at (0,0,2), touching it, beyond it,
\* and behind the ray origin
ShadowObjects ==
    {Object(Sphere(V3(0, 0, 1), Fin(1, 2)), Red, NoMaterial),
     Object(Sphere(V3(0, 0, 3), FOne), Red, NoMaterial),
     Object(Sphere(V3(0, 0, 5), FOne), Red, NoMaterial),
     Object(Plane(V3(0, 0, 3), V3(0, 0, 1)), Red, NoMaterial),
     Object(Cuboid(V3(-1, -1, -2), V3(1, 1, -1)), Red, NoMaterial)}

ShadowRays ==
    {[origin |-> o, direction |-> d] :
        o \in {V3(0, 0, 0), V3(0, 0, 1)},
        d \in {V3(0, 0, 1), V3(0, 0, -1), V3(1, 0, 0), Vec3(FZero, Fin(3, 5), Fin(4, 5))}}

InitShadow ==
    /\ ray \in ShadowRays
    /\ world \in {World(Black, Ambient(FOne, White), <<l>>, os) :
                    l \in {PointLight(FOne, V3(0, 0, 2), White),
                           PointLight(FOne, V3(0, 3, 4), White),
                           Ambient(FOne, White)},
                    os \in SeqsUpTo(ShadowObjects, 2)}
    /\ shadow = NoShadow
    /\ isect = NoIsect /\ shaded = NoShaded /\ traced = NoTraced
    /\ colour = Black /\ rgb = NoRgb
    /\ loc = NoLocation /\ basis = NoBasis
    /\ hits = <<>> /\ found = NoFound /\ obj = NoObject /\ hitres = NoHit
    /\ SamplerIdle /\ gen = NoGen
    /\ RenderIdle
    /\ PureIdle

InShadowCall(kind) ==
    /\ shadow.st = "none" /\ world.lights[1].kind = kind
    /\ shadow' = [st |-> "ok", v |-> InShadow(world.lights[1], ray, world)]
    /\ UNCHANGED <<world, isect, shaded, traced, colour, rgb>>
    /\ UNCHANGED geomVars
    /\ UNCHANGED samplerVars
    /\ UNCHANGED renderVars
    /\ UNCHANGED pureVars

NextShadow == InShadowCall("Point") \/ InShadowCall("Ambient")

SpecShadow == InitShadow /\ [][NextShadow]_vars

\* |light_location - ray.origin|^2
DistanceToLightSquared ==
    LET l == world.lights[1].location
        o == ray.origin
    IN  FAdd(FAdd(FMul(FSub(l.x, o.x), FSub(l.x, o.x)),
                  FMul(FSub(l.y, o.y), FSub(l.y, o.y))),
             FMul(FSub(l.z, o.z), FSub(l.z, o.z)))

\* C18: PointLight::in_shadow is true if and only if some object's hit on
\* the ray returns a t with t * t < |light_location - ray.origin|^2;
\* Ambient::in_shadow is false.
C18_InShadowIffOccluder ==
    shadow.st = "ok" =>
        IF world.lights[1].kind = "Ambient" THEN shadow.v = FALSE
        ELSE shadow.v <=>
                 \E k \in 1..Len(world.objects) :
                     LET h == Hit(world.objects[k].geom, ray)
                     IN  h.st = "Some" /\ FLt(FMul(h.t, h.t), DistanceToLightSquared)

\* a point light is not shadowed although an object is hit: the hit is at
\* the light or beyond it
C18_Witness ==
    /\ shadow.st = "ok" /\ ~shadow.v /\ world.lights[1].kind = "Point"
    /\ \E k \in 1..Len(world.objects) :
           LET h == Hit(world.objects[k].geom, ray)
           IN  h.st = "Some" /\ FEq(FMul(h.t, h.t), DistanceToLightSquared)

---------------------------------------------------------------------------
(* utility.rs: impl From<Colour> for Rgb<u8> *)

ChannelValues ==
    {FInt(-1), FZero, Fin(1, 4), Fin(1, 2), FOne, Fin(3, 2), FInt(2), FInt(4),
     FInf(1), FInf(-1), FNaN}

InitColour ==
    /\ colour \in {Colour(r, g, b) : r \in ChannelValues, g \in ChannelValues,
                                     b \in ChannelValues}
    /\ rgb = NoRgb
    /\ world = NoWorld /\ isect = NoIsect
    /\ shaded = NoShaded /\ traced = NoTraced /\ shadow = NoShadow
    /\ GeomIdle
    /\ SamplerIdle /\ gen = NoGen
    /\ RenderIdle
    /\ PureIdle

RgbFromCall ==
    /\ rgb.st = "none"
    /\ rgb' = RgbFrom(colour)
    /\ UNCHANGED <<world, isect, shaded, traced, shadow, colour>>
    /\ UNCHANGED geomVars
    /\ UNCHANGED samplerVars
    /\ UNCHANGED renderVars
    /\ UNCHANGED pureVars

NextColour == RgbFromCall

SpecColour == InitColour /\ [][NextColour]_vars

\* the channels of the colour in hand and of its conversion, in the same order
ColourChannels == <<colour.r, colour.g, colour.b>>
RgbChannels == <<rgb.r, rgb.g, rgb.b>>

\* whether x is the largest channel of the colour in hand
IsLargest(x) ==
    ~IsNaN(x) /\ \A j \in 1..3 : IsNaN(ColourChannels[j]) \/ FLe(ColourChannels[j], x)

\* the 8-bit value of a finite x: 255 * x, cut to 0..255, fraction dropped
EightBit(x) ==
    IF x.n <= 0 THEN 0
    ELSE IF 255 * x.n >= 255 * x.d THEN 255
    ELSE (255 * x.n) \div x.d

\* C19: if the largest channel exceeds 1.0 every channel is divided by it,
\* so that the largest channel becomes 255; otherwise the channels are left
\* unscaled; each channel is then multiplied by 255 and clamped into 0..255,
\* negative channels becoming 0.
C19_ToneMap ==
    rgb.st = "ok" =>
        \A i \in 1..3 :
            LET x == ColourChannels[i]
                out == RgbChannels[i]
            IN  /\ out \in 0..255
                /\ FLt(x, FZero) => out = 0
                /\ \A j \in 1..3 :
                       LET max == ColourChannels[j]
                       IN  IsLargest(max) =>
                               IF FGt(max, FOne)
                               THEN /\ i = j => out = 255
                                    /\ (IsFin(x) /\ IsFin(max)) =>
                                           out = EightBit(Fin(x.n * max.d, x.d * max.n))
                               ELSE IsFin(x) => out = EightBit(x)

=============================================================================
